---- MODULE Spec2Model ----
(***************************************************************************)
(* Verification model of py-quantix:                                       *)
(*   - the live trading engine (core/engine.py) with its notifier,         *)
(*   - the backtest simulator (domain/service/backtest_service_impl.py),   *)
(*   - the strategy evaluators (strategies/*.py).                          *)
(* Prices and amounts are exact rationals <<numerator, denominator>> or    *)
(* integers; reason strings are ASCII renderings of the source's texts.    *)
(***************************************************************************)
EXTENDS Integers, Sequences, FiniteSets, TLC

VARIABLES
    mode,           \* TradingEngine.mode
    strategies,     \* TradingEngine.strategies: its keys, in dict order
    last_signals,   \* TradingEngine.last_signals (absent key = None)
    positions,      \* TradingEngine.positions    (absent key = NoPosition)
    signals,        \* signals evaluated by the last cycle
    events,         \* calls to collaborators and log lines of the last cycle
    result,         \* the last cycle's handler and its return value
    \* BacktestServiceImpl._run_backtest_simulation
    bt_input,       \* its arguments: df (the rows the loop has gone through;
                    \* a row is drawn when the loop reads it), initial_balance,
                    \* fee_rate
    bt_pc,          \* "idle", "loop" (the candle loop), "done" or "raised"
    balance,        \* cash
    position,       \* quantity held
    entry_price,    \* price of the open position
    trades,         \* the trade log
    ledger,         \* history: balance and position after each candle
    report,         \* the returned result dictionary
    \* a strategy object under evaluation
    strategy,       \* its class and constructor arguments
    candles,        \* the klines fetched so far
    st_signal,      \* what evaluate(klines) returned (None: not evaluated)
    \* a backtest signal generator
    gen_strategy,   \* the strategy's type and parameters
    gen_closes,     \* the closes of the historical candles
    gen_frame,      \* the frame with its signal columns (<< >>: not computed)
    \* StrategyServiceImpl.validate_strategy_parameters
    v_type,         \* its argument type
    v_parameters,   \* its argument parameters
    v_result,       \* what the call did: the exception raised or the value
    \* StrategyServiceImpl.create_strategy
    repository,     \* the strategies saved, in the order of their saving
    event_bus,      \* the events published
    cs_result,      \* what the last call did
    \* BacktestServiceImpl
    market,         \* the closes of the candles the exchange returns
    backtest_results, \* _backtest_results: the result of each backtest id
    rb_result,      \* what the last call did
    \* TradingEngine.__init__
    engine_init,    \* the configuration and what _init_strategies did
    \* TradingEngine.run_continuously
    dr_pc,          \* where the driver is: "pass", "sleep", "alert", ...
    dr_last,        \* what the last pass did: "True", "False" or "raised"
    dr_sleeps,      \* the sleeps completed since the last pass
    \* MemoryEventBus
    handlers,       \* _handlers: for each event type, whether it is a key
                    \* of the dict and its list of handlers
    deliveries,     \* the handle calls of the last publish, in order
    bus_result      \* what the last call of the bus was and did

engine_vars == <<mode, strategies, last_signals, positions, signals, events, result>>

bt_vars == <<bt_input, bt_pc, balance, position, entry_price, trades,
             ledger, report>>

strategy_vars == <<strategy, candles, st_signal>>

gen_vars == <<gen_strategy, gen_closes, gen_frame>>

validation_vars == <<v_type, v_parameters, v_result>>

strategy_service_vars == <<repository, event_bus, cs_result>>

backtest_service_vars == <<market, backtest_results, rb_result>>

driver_vars == <<dr_pc, dr_last, dr_sleeps>>

bus_vars == <<handlers, deliveries, bus_result>>

service_vars == <<strategy_service_vars, backtest_service_vars, engine_init,
                  bus_vars>>

\* each component leaves the state of the others alone
EngineRest ==
    UNCHANGED <<bt_vars, strategy_vars, gen_vars, validation_vars, service_vars>>

BacktestRest ==
    UNCHANGED <<engine_vars, strategy_vars, gen_vars, validation_vars, service_vars,
                driver_vars>>

StrategyRest ==
    UNCHANGED <<engine_vars, bt_vars, gen_vars, validation_vars, service_vars,
                driver_vars>>

GeneratorRest ==
    UNCHANGED <<engine_vars, bt_vars, strategy_vars, validation_vars, service_vars,
                driver_vars>>

ValidationRest ==
    UNCHANGED <<engine_vars, bt_vars, strategy_vars, gen_vars, service_vars,
                driver_vars>>

vars == <<mode, strategies, last_signals, positions, signals, events, result,
          bt_input, bt_pc, balance, position, entry_price, trades,
          ledger, report, strategy, candles, st_signal,
          gen_strategy, gen_closes, gen_frame,
          v_type, v_parameters, v_result,
          repository, event_bus, cs_result,
          market, backtest_results, rb_result, engine_init,
          dr_pc, dr_last, dr_sleeps,
          handlers, deliveries, bus_result>>

----------------------------------------------------------------------------
(* Exact rational arithmetic: a number is <<numerator, denominator>> with   *)
(* a positive denominator, in lowest terms.                                 *)

RECURSIVE Gcd(_, _)
Gcd(a, b) == IF b = 0 THEN a ELSE Gcd(b, a % b)

Abs(x) == IF x < 0 THEN -x ELSE x

Norm(n, d) ==
    LET g == Gcd(Abs(n), Abs(d))
    IN  IF d < 0 THEN <<(-n) \div g, (-d) \div g>> ELSE <<n \div g, d \div g>>

R(n) == <<n, 1>>

Zero == R(0)

RMul(a, b) ==
    LET g1 == Gcd(Abs(a[1]), b[2])
        g2 == Gcd(Abs(b[1]), a[2])
    IN  Norm((a[1] \div g1) * (b[1] \div g2), (a[2] \div g2) * (b[2] \div g1))

\* a / b for b # 0
RDiv(a, b) == RMul(a, IF b[1] < 0 THEN <<-b[2], -b[1]>> ELSE <<b[2], b[1]>>)

RAdd(a, b) ==
    LET g == Gcd(a[2], b[2])
    IN  Norm(a[1] * (b[2] \div g) + b[1] * (a[2] \div g), (a[2] \div g) * b[2])

RSub(a, b) == RAdd(a, <<-b[1], b[2]>>)

RLt(a, b) == RSub(a, b)[1] < 0

RMax(a, b) == IF RLt(a, b) THEN b ELSE a

----------------------------------------------------------------------------
(* Live engine: configuration                                              *)

\* config['trading']['symbols'], in dict order
SymbolOrder == <<"BNBUSDT", "BTCUSDT">>

AllSymbols == {SymbolOrder[i] : i \in 1..Len(SymbolOrder)}

\* TradingEngine.strategies as _init_strategies builds it (one strategy per
\* configured symbol), or cut down to one symbol as the single-symbol test does
StrategyConfigs == {SymbolOrder, <<SymbolOrder[1]>>}

\* self.strategies.keys()
StrategyKeys == {strategies[i] : i \in 1..Len(strategies)}

\* the value of dict.get(key) for an absent key
None == [action |-> "None"]

NoPosition == [side |-> "None"]

Modes == {"auto", "monitor", "paper"}

\* a write that sets every symbol's position
record_position_for_all(pos, symbol, p) == [s \in DOMAIN pos |-> p]

\* lines 251-255: self.positions[symbol] = {...}
record_position(pos, symbol, p) == [pos EXCEPT ![symbol] = p]
\* an order size that ignores the symbol's configuration
position_size_default(symbol) == 1

\* symbol_config.get('position_size', 0.001), in units of 0.001
position_size(symbol) ==
    CASE symbol = "BNBUSDT" -> 100
      [] symbol = "BTCUSDT" -> 1
      [] OTHER -> 1

\* the signals a strategy's evaluate can hand to the engine
StrategySignals ==
    { [action |-> "hold", reason |-> "no clear signal"],
      [action |-> "buy",  reason |-> "ma cross, momentum positive", price |-> 1],
      [action |-> "buy",  reason |-> "donchian upper breakout", price |-> 1,
       position_size |-> 5],
      [action |-> "sell", reason |-> "ma cross, momentum negative", price |-> 2] }

\* what strategy.evaluate(klines) does: return a signal or raise
Raise == [action |-> "raise"]

StrategyOutcomes == StrategySignals \cup {Raise}

\* the environment of one symbol's cycle: whether get_klines succeeds, what
\* strategy.evaluate does, whether the notification is delivered and whether
\* place_order succeeds; an outcome the cycle never consults is fixed
CycleInputs ==
    { in \in [fetch : BOOLEAN, strat : StrategyOutcomes,
              notify : BOOLEAN, order : BOOLEAN] :
        /\ (~in.fetch) => in.strat = Raise
        /\ (~in.fetch \/ in.strat.action \in {"hold", "raise"})
               => (in.notify /\ in.order) }

\* f"错误: {str(e)}"
ErrorReason(msg) == "error: " \o msg

\* str.upper() on an action
Upper(action) ==
    CASE action = "buy" -> "BUY"
      [] action = "sell" -> "SELL"
      [] OTHER -> action

\* dict.get(key, default) on a signal
SignalGet(signal, key, default) ==
    IF key \in DOMAIN signal THEN signal[key] ELSE default

----------------------------------------------------------------------------
(* Live engine: collaborators                                              *)

\* a notifier whose _send_message lets a failed delivery escape as an exception
send_message_uncaught(delivered) == [exc |-> ~delivered, ret |-> delivered]

\* DingTalkNotifier._send_message: every exception is caught, the result is
\* a boolean
send_message(delivered) == [exc |-> FALSE, ret |-> delivered]

\* DingTalkNotifier.send_trade_notification
send_trade_notification(symbol, action, price, reason, size, delivered) ==
    LET r == send_message(delivered)
    IN  [exc |-> r.exc, ret |-> r.ret,
         event |-> [kind |-> "trade_notification", symbol |-> symbol,
                    action |-> Upper(action), price |-> price,
                    reason |-> reason, position_size |-> size,
                    delivered |-> delivered]]

\* DingTalkNotifier.send_system_alert
send_system_alert(symbol, title) ==
    [kind |-> "system_alert", symbol |-> symbol, title |-> title]

\* TradingEngine._get_market_data: returns the klines or re-raises
get_market_data(symbol, fetchOk) ==
    IF fetchOk THEN [exc |-> FALSE, msg |-> "", klines |-> "klines"]
    ELSE [exc |-> TRUE, msg |-> "fetch failed", klines |-> "none"]

----------------------------------------------------------------------------
(* Live engine: TradingEngine methods                                      *)

\* an _execute_trade that does not return early on a hold signal
is_hold_ignored(signal) == FALSE

\* _execute_trade's first test: signal['action'] == 'hold'
is_hold(signal) == signal.action = "hold"

\* a cycle that compares only the action with the last signal's
is_new_signal_by_action(signal, last) == signal.action # last.action

\* a cycle that dispatches every signal, new or not
is_new_signal_always(signal, last) == TRUE

\* the cycle's test for a new signal: signal != self.last_signals.get(symbol)
is_new_signal(signal, last) == signal # last

\* TradingEngine._execute_trade
\* an engine that takes every mode for "auto"
trading_mode_always_auto == "auto"

\* self.mode as _execute_trade reads it
trading_mode == mode

\* TradingEngine._execute_trade
execute_trade(pos, symbol, signal, notifyOk, orderOk) ==
    IF is_hold(signal)
    THEN [exc |-> FALSE, ret |-> TRUE, positions |-> pos, events |-> <<>>]
    ELSE
      LET size == position_size(symbol)
          n == send_trade_notification(symbol, signal.action,
                   SignalGet(signal, "price", 0),
                   SignalGet(signal, "reason", ""), size, notifyOk)
      IN
      IF n.exc
      THEN [exc |-> TRUE, ret |-> FALSE, positions |-> pos,
            events |-> <<n.event>>]
      ELSE IF trading_mode = "monitor"
      THEN [exc |-> FALSE, ret |-> TRUE, positions |-> pos,
            events |-> <<n.event>>]
      ELSE IF trading_mode = "auto"
      THEN
        LET side == Upper(signal.action)
            o == [kind |-> "place_order", symbol |-> symbol, side |-> side,
                  order_type |-> "MARKET", quantity |-> size, ok |-> orderOk]
        IN
        IF orderOk
        THEN [exc |-> FALSE, ret |-> TRUE,
              positions |-> record_position(pos, symbol,
                  [side |-> side, size |-> size,
                   entry_price |-> SignalGet(signal, "price", 0)]),
              events |-> <<n.event, o>>]
        ELSE [exc |-> FALSE, ret |-> FALSE, positions |-> pos,
              events |-> <<n.event, o,
                           send_system_alert(symbol, "trade execution failed")>>]
      ELSE [exc |-> FALSE, ret |-> FALSE, positions |-> pos,
            events |-> <<n.event>>]

\* TradingEngine.evaluate_strategy: the body of its try block
evaluate_strategy_try(symbol, in) ==
    LET md == get_market_data(symbol, in.fetch)
        fetched == [kind |-> "get_klines", symbol |-> symbol, ok |-> in.fetch]
        evaluated == [kind |-> "evaluate", symbol |-> symbol,
                      ok |-> in.strat # Raise]
    IN
    IF md.exc
    THEN [exc |-> TRUE, msg |-> md.msg, events |-> <<fetched>>, signal |-> None]
    ELSE IF symbol \notin StrategyKeys
    THEN [exc |-> FALSE, msg |-> "", events |-> <<fetched>>,
          signal |-> [action |-> "hold", reason |-> "no strategy for symbol"]]
    ELSE IF in.strat = Raise
    THEN [exc |-> TRUE, msg |-> "strategy failed",
          events |-> <<fetched, evaluated>>, signal |-> None]
    ELSE [exc |-> FALSE, msg |-> "", events |-> <<fetched, evaluated>>,
          signal |-> in.strat]

\* an evaluate_strategy without its except clause
evaluate_strategy_uncaught(symbol, in) == evaluate_strategy_try(symbol, in)

\* TradingEngine.evaluate_strategy: the try block and its except clause
evaluate_strategy(symbol, in) ==
    LET r == evaluate_strategy_try(symbol, in)
    IN  IF r.exc
        THEN [exc |-> FALSE, msg |-> "", events |-> r.events,
              signal |-> [action |-> "hold", reason |-> ErrorReason(r.msg)]]
        ELSE r

\* TradingEngine.evaluate_all_strategies: the loop over strategies.keys()
RECURSIVE evaluate_all_from(_, _, _)
evaluate_all_from(i, inp, acc) ==
    IF i > Len(strategies) \/ acc.exc THEN acc
    ELSE LET s == strategies[i]
             e == evaluate_strategy(s, inp[s])
         IN  evaluate_all_from(i + 1, inp,
                 [exc |-> e.exc,
                  events |-> acc.events \o e.events,
                  signals |-> IF e.exc THEN acc.signals
                              ELSE [acc.signals EXCEPT ![s] = e.signal]])

\* an evaluation that goes over the symbols twice
evaluate_all_strategies_twice(inp) ==
    LET once == evaluate_all_from(1, inp,
                    [exc |-> FALSE, events |-> <<>>,
                     signals |-> [s \in AllSymbols |-> None]])
    IN  [once EXCEPT !.events = @ \o @]
evaluate_all_strategies(inp) ==
    evaluate_all_from(1, inp,
        [exc |-> FALSE, events |-> <<>>, signals |-> [s \in AllSymbols |-> None]])

\* TradingEngine.run_once_for_symbol
run_once_for_symbol(symbol, in) ==
    LET e == evaluate_strategy(symbol, in)
        failed(evs) ==
            [ret |-> "False", last |-> last_signals, pos |-> positions,
             signals |-> [s \in AllSymbols |-> None],
             events |-> evs \o <<send_system_alert(symbol, "trading loop error")>>]
    IN
    IF e.exc THEN failed(e.events)
    ELSE
      LET sigs == [s \in AllSymbols |-> IF s = symbol THEN e.signal ELSE None]
      IN
      IF is_new_signal(e.signal, last_signals[symbol])
      THEN
        LET new == [kind |-> "new_signal", symbol |-> symbol]
            t == execute_trade(positions, symbol, e.signal, in.notify, in.order)
        IN
        IF t.exc
        THEN [failed(e.events \o <<new>> \o t.events) EXCEPT !.signals = sigs]
        ELSE [ret |-> IF t.ret THEN "True" ELSE "False",
              last |-> [last_signals EXCEPT ![symbol] = e.signal],
              pos |-> t.positions,
              signals |-> sigs,
              events |-> e.events \o <<new>> \o t.events]
      ELSE [ret |-> "True", last |-> last_signals, pos |-> positions,
            signals |-> sigs,
            events |-> e.events \o <<[kind |-> "no_new_signal", symbol |-> symbol]>>]

\* TradingEngine.run_once_for_all_symbols: the loop over signals.items()
RECURSIVE dispatch_from(_, _, _, _)
dispatch_from(i, sigs, inp, st) ==
    IF i > Len(strategies) THEN st
    ELSE
      LET s == strategies[i]
          signal == sigs[s]
      IN
      IF is_new_signal(signal, st.last[s])
      THEN
        LET new == [kind |-> "new_signal", symbol |-> s]
            t == execute_trade(st.pos, s, signal, inp[s].notify, inp[s].order)
        IN
        IF t.exc
        THEN dispatch_from(i + 1, sigs, inp,
                 [st EXCEPT !.success = FALSE,
                            !.events = @ \o <<new>> \o t.events
                                \o <<send_system_alert(s, "trading loop error")>>])
        ELSE dispatch_from(i + 1, sigs, inp,
                 [success |-> st.success /\ t.ret,
                  last |-> [st.last EXCEPT ![s] = signal],
                  pos |-> t.positions,
                  events |-> st.events \o <<new>> \o t.events])
      ELSE dispatch_from(i + 1, sigs, inp,
               [st EXCEPT !.events = @ \o <<[kind |-> "no_new_signal", symbol |-> s]>>])

\* TradingEngine.run_once_for_all_symbols
run_once_for_all_symbols(inp) ==
    LET ev == evaluate_all_strategies(inp)
    IN
    IF ev.exc
    THEN [ret |-> "raised", last |-> last_signals, pos |-> positions,
          signals |-> ev.signals, events |-> ev.events]
    ELSE
      LET st == dispatch_from(1, ev.signals, inp,
                    [success |-> TRUE, last |-> last_signals,
                     pos |-> positions, events |-> ev.events])
      IN [ret |-> IF st.success THEN "True" ELSE "False",
          last |-> st.last, pos |-> st.pos,
          signals |-> ev.signals, events |-> st.events]

\* TradingEngine.run_once
run_once(inp) ==
    IF Len(strategies) = 1
    THEN run_once_for_symbol(strategies[1], inp[strategies[1]])
    ELSE run_once_for_all_symbols(inp)

----------------------------------------------------------------------------
(* Backtest simulator: BacktestServiceImpl._run_backtest_simulation         *)

\* longest candle series
MaxCandles == 4

\* the closes of the candles
Closes == {1, 2}

\* balance * 0.99: the share of the balance that is spent on a buy
KeepForFees == <<99, 100>>

InitialBalances == {R(100)}

FeeRates == {Zero, <<1, 10>>}

\* candles per calendar day of the series' interval (1d, 12h)
CandlesPerDay == {1, 2}

\* a row of df: the close and the two signal columns; open_time is the row's
\* position in the series
Rows == [close : Closes, signal_buy : BOOLEAN, signal_sell : BOOLEAN]

\* df.iloc[i]['open_time'] of the i-th row (1-based): consecutive intervals
open_time(i) == i - 1

\* datetime.date() of an open_time
date_of(in, t) == t \div in.candles_per_day

NoReport == [status |-> "none"]

\* a buy branch that is taken on every buy signal, whatever the balance
buy_condition_any_balance(row, bal) == row.signal_buy

\* line 399: df.iloc[i]['signal_buy'] and balance > 0
buy_condition(row, bal) == row.signal_buy /\ RLt(Zero, bal)

\* a sell test that does not look at the position
sell_condition_any_position(row, pos) == row.signal_sell

\* line 422: df.iloc[i]['signal_sell'] and position > 0
sell_condition(row, pos) == row.signal_sell /\ RLt(Zero, pos)

\* a buy that pays its fee out of the amount spent
buy_net_of_fee(in, i, bal) ==
    LET close_price == R(in.df[i].close)
        buy_amount == RMul(bal, KeepForFees)
        fee == RMul(buy_amount, in.fee_rate)
        quantity == RDiv(RSub(buy_amount, fee), close_price)
    IN  [balance |-> Zero, position |-> quantity, entry_price |-> close_price,
         trade |-> [date |-> open_time(i), type |-> "BUY", price |-> close_price,
                    quantity |-> quantity, fee |-> fee, balance |-> Zero,
                    position_value |-> RMul(quantity, close_price)]]

\* lines 401-419: the state and the trade of a buy at candle i
buy(in, i, bal) ==
    LET close_price == R(in.df[i].close)
        buy_amount == RMul(bal, KeepForFees)
        quantity == RDiv(buy_amount, close_price)
        fee == RMul(buy_amount, in.fee_rate)
    IN  [balance |-> Zero, position |-> quantity, entry_price |-> close_price,
         trade |-> [date |-> open_time(i), type |-> "BUY", price |-> close_price,
                    quantity |-> quantity, fee |-> fee, balance |-> Zero,
                    position_value |-> RMul(quantity, close_price)]]

\* a sell whose profit_loss leaves the fee out
sell_gross(in, i, pos, entry) ==
    LET close_price == R(in.df[i].close)
        sell_amount == RMul(pos, close_price)
        fee == RMul(sell_amount, in.fee_rate)
        bal == RSub(sell_amount, fee)
        profit_loss == RMul(RSub(close_price, entry), pos)
        profit_loss_pct == RMul(RSub(RDiv(close_price, entry), R(1)), R(100))
    IN  [balance |-> bal, position |-> Zero, entry_price |-> Zero,
         trade |-> [date |-> open_time(i), type |-> "SELL", price |-> close_price,
                    quantity |-> pos, fee |-> fee, balance |-> bal,
                    position_value |-> Zero, profit_loss |-> profit_loss,
                    profit_loss_pct |-> profit_loss_pct]]
\* lines 424-449: the state and the trade of a sell at candle i
sell(in, i, pos, entry) ==
    LET close_price == R(in.df[i].close)
        sell_amount == RMul(pos, close_price)
        fee == RMul(sell_amount, in.fee_rate)
        bal == RSub(sell_amount, fee)
        profit_loss == RSub(RMul(RSub(close_price, entry), pos), fee)
        profit_loss_pct == RMul(RSub(RDiv(close_price, entry), R(1)), R(100))
    IN  [balance |-> bal, position |-> Zero, entry_price |-> Zero,
         trade |-> [date |-> open_time(i), type |-> "SELL", price |-> close_price,
                    quantity |-> pos, fee |-> fee, balance |-> bal,
                    position_value |-> Zero, profit_loss |-> profit_loss,
                    profit_loss_pct |-> profit_loss_pct]]

\* a final balance that leaves the open position out
final_balance_cash_only(in, bal, pos) == bal

\* lines 452-454: final_balance
final_balance(in, bal, pos) ==
    IF RLt(Zero, pos)
    THEN RAdd(bal, RMul(pos, R(in.df[Len(in.df)].close)))
    ELSE bal

\* a curve that carries the previous value over and never looks at the trades
value_carried_over(in, i, trs, k, value) == value
\* lines 469-475: the value left by the trades dated on candle i's day
RECURSIVE value_after_trades(_, _, _, _, _)
value_after_trades(in, i, trs, k, value) ==
    IF k > Len(trs) THEN value
    ELSE value_after_trades(in, i, trs, k + 1,
             IF date_of(in, trs[k].date) = date_of(in, open_time(i))
             THEN IF trs[k].type = "BUY" THEN trs[k].position_value
                  ELSE trs[k].balance
             ELSE value)

\* lines 461-486: portfolio_values, computed after the loop from the trade
\* log and from the balance and position the loop ended with
RECURSIVE portfolio_values_from(_, _, _, _, _, _)
portfolio_values_from(in, i, trs, bal, pos, pvs) ==
    IF i > Len(in.df) THEN pvs
    ELSE
      LET carried == IF i > 1
                     THEN value_after_trades(in, i, trs, 1, pvs[i - 1].value)
                     ELSE in.initial_balance
          value == IF RLt(Zero, pos)
                   THEN RAdd(bal, RMul(pos, R(in.df[i].close)))
                   ELSE carried
      IN  portfolio_values_from(in, i + 1, trs, bal, pos,
              Append(pvs, [date |-> open_time(i), value |-> value]))

portfolio_values(in, trs, bal, pos) ==
    portfolio_values_from(in, 1, trs, bal, pos, << >>)

\* a drawdown loop that measures every value against the first one only
RECURSIVE max_drawdown_fixed_peak(_, _, _, _)
max_drawdown_fixed_peak(pvs, k, max_value, max_dd) ==
    IF k > Len(pvs) THEN max_dd
    ELSE LET drawdown == RMul(RDiv(RSub(max_value, pvs[k].value), max_value), R(100))
         IN  max_drawdown_fixed_peak(pvs, k + 1, max_value, RMax(max_dd, drawdown))

\* lines 489-495: max_drawdown over portfolio_values (not empty)
RECURSIVE max_drawdown_from(_, _, _, _)
max_drawdown_from(pvs, k, max_value, max_dd) ==
    IF k > Len(pvs) THEN max_dd
    ELSE LET m == RMax(max_value, pvs[k].value)
             drawdown == RMul(RDiv(RSub(m, pvs[k].value), m), R(100))
         IN  max_drawdown_from(pvs, k + 1, m, RMax(max_dd, drawdown))

max_drawdown(pvs) == max_drawdown_from(pvs, 1, pvs[1].value, Zero)

\* lines 451-508: the result dictionary
backtest_result(in, trs, bal, pos) ==
    LET final == final_balance(in, bal, pos)
        pvs == portfolio_values(in, trs, bal, pos)
    IN  [status |-> "ok",
         initial_balance |-> in.initial_balance,
         final_balance |-> final,
         total_return |-> RSub(final, in.initial_balance),
         total_return_pct |->
             RMul(RSub(RDiv(final, in.initial_balance), R(1)), R(100)),
         max_drawdown |-> max_drawdown(pvs),
         trades |-> trs,
         portfolio_values |-> pvs]

\* no backtest is running
BacktestIdle ==
    /\ bt_input = [df |-> << >>, initial_balance |-> Zero, fee_rate |-> Zero,
                   candles_per_day |-> 1]
    /\ bt_pc = "idle"
    /\ balance = Zero
    /\ position = Zero
    /\ entry_price = Zero
    /\ trades = << >>
    /\ ledger = << >>
    /\ report = NoReport

----------------------------------------------------------------------------
(* Strategies: klines and pandas series                                     *)

\* longest kline list handed to a strategy
MaxKlines == 4

\* the price texts of a kline, as the exchange sends them: numerals, or
\* something that is not a number
PriceTexts == {"1", "2", "abc"}

\* the number a price text denotes (pd.to_numeric, float)
ParsePrice == ("1" :> 1) @@ ("2" :> 2)

\* klines: high (kline[2]), low (kline[3]) and close (kline[4]); the other
\* columns are not read by any strategy's signal logic
Klines ==
    { [high |-> "2", low |-> "1", close |-> "1"],
      [high |-> "2", low |-> "1", close |-> "2"],
      [high |-> "1", low |-> "1", close |-> "2"],
      [high |-> "2", low |-> "2", close |-> "1"],
      [high |-> "2", low |-> "1", close |-> "abc"] }

\* NaN and inf of float arithmetic
NaN == <<0, 0>>

Inf == <<1, 0>>

IsNaN(x) == x = NaN

\* comparisons of floats: False when either side is NaN
Gt(a, b) == ~IsNaN(a) /\ ~IsNaN(b) /\ RLt(b, a)

Lt(a, b) == Gt(b, a)

Ge(a, b) == ~IsNaN(a) /\ ~IsNaN(b) /\ ~RLt(a, b)

Le(a, b) == Ge(b, a)

\* a - b, a + b, a * b and abs(a) with NaN propagated
Sub(a, b) == IF IsNaN(a) \/ IsNaN(b) THEN NaN ELSE RSub(a, b)

Add(a, b) == IF IsNaN(a) \/ IsNaN(b) THEN NaN ELSE RAdd(a, b)

Mul(a, b) == IF IsNaN(a) \/ IsNaN(b) THEN NaN ELSE RMul(a, b)

FAbs(a) == IF IsNaN(a) THEN NaN ELSE <<Abs(a[1]), a[2]>>

\* sum of s[a..b]
RECURSIVE Sum(_, _, _)
Sum(s, a, b) == IF a > b THEN Zero ELSE RAdd(s[a], Sum(s, a + 1, b))

\* the rows of the window that ends at row i
Window(i, w) == (i - w + 1)..i

\* Series.rolling(window=w): a window is complete when it has w rows, none NaN
FullWindow(s, i, w) == i >= w /\ \A j \in Window(i, w) : ~IsNaN(s[j])

\* Series.rolling(window=w).mean()
rolling_mean(s, w) ==
    [i \in 1..Len(s) |->
        IF FullWindow(s, i, w) THEN RDiv(Sum(s, i - w + 1, i), R(w)) ELSE NaN]

\* Series.rolling(window=w).std() squared: the sample variance (ddof = 1),
\* NaN for a window of one row
rolling_var(s, w) ==
    [i \in 1..Len(s) |->
        IF FullWindow(s, i, w) /\ w > 1
        THEN LET m == RDiv(Sum(s, i - w + 1, i), R(w))
                 sq == [j \in 1..Len(s) |-> RMul(RSub(s[j], m), RSub(s[j], m))]
             IN  RDiv(Sum(sq, i - w + 1, i), R(w - 1))
        ELSE NaN]

\* Series.shift(k)
shift(s, k) == [i \in 1..Len(s) |-> IF i <= k THEN NaN ELSE s[i - k]]

\* Series.diff()
diff(s) == [i \in 1..Len(s) |-> Sub(s[i], shift(s, 1)[i])]

\* DataFrame.max(axis=1) over three columns: NaN entries are skipped
max3(a, b, c) ==
    LET m2(x, y) == IF IsNaN(x) THEN y ELSE IF IsNaN(y) THEN x ELSE RMax(x, y)
    IN  m2(m2(a, b), c)

\* pd.to_numeric on a column of klines: raises on a text that is no number
to_numeric(klines, col) ==
    IF \E i \in 1..Len(klines) : klines[i][col] \notin DOMAIN ParsePrice
    THEN [exc |-> TRUE, msg |-> "unable to parse string", values |-> << >>]
    ELSE [exc |-> FALSE, msg |-> "",
          values |-> [i \in 1..Len(klines) |-> R(ParsePrice[klines[i][col]])]]

\* a strategy's answers
Hold(reason) == [action |-> "hold", reason |-> reason]

InsufficientData == "insufficient data"

----------------------------------------------------------------------------
(* Strategies: TrendFollowingStrategy                                       *)

\* TrendFollowingStrategy.calculate_indicators: the columns the signal
\* logic reads
tf_calculate_indicators(st, klines) ==
    LET high == to_numeric(klines, "high")
        low == to_numeric(klines, "low")
        close == to_numeric(klines, "close")
    IN
    IF high.exc \/ low.exc \/ close.exc
    THEN [exc |-> TRUE, msg |-> "unable to parse string"]
    ELSE
      LET n == Len(klines)
          prev_close == shift(close.values, 1)
          back == shift(close.values, st.period)
          tr == [i \in 1..n |->
                    max3(FAbs(Sub(high.values[i], low.values[i])),
                         FAbs(Sub(high.values[i], prev_close[i])),
                         FAbs(Sub(low.values[i], prev_close[i])))]
      IN  [exc |-> FALSE, msg |-> "", len |-> n,
           close |-> close.values,
           ma_short |-> rolling_mean(close.values, st.period \div 2),
           ma_long |-> rolling_mean(close.values, st.period),
           atr |-> rolling_mean(tr, st.period),
           momentum |-> [i \in 1..n |-> Sub(close.values[i], back[i])]]

\* TrendFollowingStrategy.generate_signals, line 74: not (len(df) < period)
tf_enough_data(st, df) == ~(df.len < st.period)

\* a crossing rule without the momentum filter
tf_generate_signals_any_momentum(st, df) ==
    IF ~tf_enough_data(st, df) THEN [exc |-> FALSE, signal |-> Hold(InsufficientData)]
    ELSE IF df.len < 2 THEN [exc |-> TRUE, msg |-> "single positional indexer is out-of-bounds"]
    ELSE
      LET cur == df.len
          prev == df.len - 1
          band == Mul(df.atr[cur], st.multiplier)
      IN
      IF /\ Gt(df.ma_short[cur], df.ma_long[cur])
         /\ Le(df.ma_short[prev], df.ma_long[prev])
      THEN [exc |-> FALSE,
            signal |-> [action |-> "buy",
                        reason |-> "ma cross, momentum positive",
                        stop_loss |-> Sub(df.close[cur], band),
                        take_profit |-> Add(df.close[cur], band),
                        price |-> df.close[cur]]]
      ELSE IF /\ Lt(df.ma_short[cur], df.ma_long[cur])
              /\ Ge(df.ma_short[prev], df.ma_long[prev])
      THEN [exc |-> FALSE,
            signal |-> [action |-> "sell",
                        reason |-> "ma cross, momentum negative",
                        stop_loss |-> Add(df.close[cur], band),
                        take_profit |-> Sub(df.close[cur], band),
                        price |-> df.close[cur]]]
      ELSE [exc |-> FALSE, signal |-> Hold("no clear signal")]
\* TrendFollowingStrategy.generate_signals
tf_generate_signals(st, df) ==
    IF ~tf_enough_data(st, df) THEN [exc |-> FALSE, signal |-> Hold(InsufficientData)]
    ELSE IF df.len < 2 THEN [exc |-> TRUE, msg |-> "single positional indexer is out-of-bounds"]
    ELSE
      LET cur == df.len
          prev == df.len - 1
          band == Mul(df.atr[cur], st.multiplier)
      IN
      IF /\ Gt(df.ma_short[cur], df.ma_long[cur])
         /\ Le(df.ma_short[prev], df.ma_long[prev])
         /\ Gt(df.momentum[cur], Zero)
      THEN [exc |-> FALSE,
            signal |-> [action |-> "buy",
                        reason |-> "ma cross, momentum positive",
                        stop_loss |-> Sub(df.close[cur], band),
                        take_profit |-> Add(df.close[cur], band),
                        price |-> df.close[cur]]]
      ELSE IF /\ Lt(df.ma_short[cur], df.ma_long[cur])
              /\ Ge(df.ma_short[prev], df.ma_long[prev])
              /\ Lt(df.momentum[cur], Zero)
      THEN [exc |-> FALSE,
            signal |-> [action |-> "sell",
                        reason |-> "ma cross, momentum negative",
                        stop_loss |-> Add(df.close[cur], band),
                        take_profit |-> Sub(df.close[cur], band),
                        price |-> df.close[cur]]]
      ELSE [exc |-> FALSE, signal |-> Hold("no clear signal")]

\* TrendFollowingStrategy.evaluate: the body of its try block
tf_evaluate_try(st, klines) ==
    LET df == tf_calculate_indicators(st, klines)
    IN  IF df.exc THEN df ELSE tf_generate_signals(st, df)

----------------------------------------------------------------------------
(* Strategies: MeanReversionStrategy                                        *)

\* gain / loss in floats
rs_of(gain, loss) ==
    IF IsNaN(gain) \/ IsNaN(loss) THEN NaN
    ELSE IF loss = Zero THEN (IF gain = Zero THEN NaN ELSE Inf)
    ELSE RDiv(gain, loss)

\* 100 - (100 / (1 + rs))
rsi_of(rs) ==
    IF IsNaN(rs) THEN NaN
    ELSE IF rs = Inf THEN R(100)
    ELSE RSub(R(100), RDiv(R(100), RAdd(R(1), rs)))

\* MeanReversionStrategy.calculate_indicators; the bands are kept as the
\* mean, the variance and the multiplier, the square root is not taken
mr_calculate_indicators(st, klines) ==
    LET high == to_numeric(klines, "high")
        low == to_numeric(klines, "low")
        close == to_numeric(klines, "close")
    IN
    IF high.exc \/ low.exc \/ close.exc
    THEN [exc |-> TRUE, msg |-> "unable to parse string"]
    ELSE
      LET n == Len(klines)
          delta == diff(close.values)
          up == [i \in 1..n |-> IF Gt(delta[i], Zero) THEN delta[i] ELSE Zero]
          down == [i \in 1..n |-> IF Lt(delta[i], Zero) THEN RSub(Zero, delta[i]) ELSE Zero]
          gain == rolling_mean(up, st.period)
          loss == rolling_mean(down, st.period)
      IN  [exc |-> FALSE, msg |-> "", len |-> n,
           close |-> close.values,
           ma |-> rolling_mean(close.values, st.period),
           var |-> rolling_var(close.values, st.period),
           rsi |-> [i \in 1..n |-> rsi_of(rs_of(gain[i], loss[i]))]]

\* a band test that ignores the band's width: close < ma
below_mean(close, ma, var, k) ==
    /\ ~IsNaN(ma) /\ ~IsNaN(var)
    /\ RLt(close, ma)
\* close < ma - std * k, for k >= 0: ma - close > 0 and its square above
\* k^2 * var
below_lower_band(close, ma, var, k) ==
    /\ ~IsNaN(ma) /\ ~IsNaN(var)
    /\ LET d == RSub(ma, close)
       IN  RLt(Zero, d) /\ RLt(RMul(RMul(k, k), var), RMul(d, d))

\* close > ma + std * k
above_upper_band(close, ma, var, k) ==
    /\ ~IsNaN(ma) /\ ~IsNaN(var)
    /\ LET d == RSub(close, ma)
       IN  RLt(Zero, d) /\ RLt(RMul(RMul(k, k), var), RMul(d, d))

\* MeanReversionStrategy.generate_signals, line 122: not (len(df) < period)
mr_enough_data(st, df) == ~(df.len < st.period)

\* MeanReversionStrategy.generate_signals
mr_generate_signals(st, df) ==
    IF ~mr_enough_data(st, df) THEN [exc |-> FALSE, signal |-> Hold(InsufficientData)]
    ELSE IF df.len < 1 THEN [exc |-> TRUE, msg |-> "single positional indexer is out-of-bounds"]
    ELSE
      LET cur == df.len
      IN
      IF /\ below_lower_band(df.close[cur], df.ma[cur], df.var[cur], st.std_dev_multiplier)
         /\ Lt(df.rsi[cur], R(30))
      THEN [exc |-> FALSE,
            signal |-> [action |-> "buy",
                        reason |-> "price below lower band, RSI oversold",
                        target_price |-> df.ma[cur],
                        price |-> df.close[cur]]]
      ELSE IF /\ above_upper_band(df.close[cur], df.ma[cur], df.var[cur], st.std_dev_multiplier)
              /\ Gt(df.rsi[cur], R(70))
      THEN [exc |-> FALSE,
            signal |-> [action |-> "sell",
                        reason |-> "price above upper band, RSI overbought",
                        target_price |-> df.ma[cur],
                        price |-> df.close[cur]]]
      ELSE [exc |-> FALSE, signal |-> Hold("no clear signal")]

\* MeanReversionStrategy.evaluate: the body of its try block
mr_evaluate_try(st, klines) ==
    LET df == mr_calculate_indicators(st, klines)
    IN  IF df.exc THEN df ELSE mr_generate_signals(st, df)

----------------------------------------------------------------------------
(* Strategies: TurtleTradingStrategy                                        *)

\* [float(kline[c]) for kline in klines]: raises on a text that is no number
floats(klines, col) == to_numeric(klines, col)

\* max and min of s[a..b], a <= b
RECURSIVE MaxOf(_, _, _)
MaxOf(s, a, b) == IF a = b THEN s[a] ELSE RMax(s[a], MaxOf(s, a + 1, b))

RECURSIVE MinOf(_, _, _)
MinOf(s, a, b) ==
    IF a = b THEN s[a]
    ELSE LET m == MinOf(s, a + 1, b) IN IF RLt(m, s[a]) THEN m ELSE s[a]

\* channels over the period rows before row n, the latest row left out
calculate_donchian_channels_before(highs, lows, n, period) ==
    IF n > period
    THEN [defined |-> TRUE,
          upper |-> MaxOf(highs, n - period, n - 1),
          lower |-> MinOf(lows, n - period, n - 1)]
    ELSE [defined |-> FALSE, upper |-> NaN, lower |-> NaN]
\* TurtleTradingStrategy._calculate_donchian_channels over the first n rows;
\* defined = FALSE stands for (None, None)
calculate_donchian_channels(highs, lows, n, period) ==
    IF n >= period
    THEN [defined |-> TRUE,
          upper |-> MaxOf(highs, n - period + 1, n),
          lower |-> MinOf(lows, n - period + 1, n)]
    ELSE [defined |-> FALSE, upper |-> NaN, lower |-> NaN]

\* TurtleTradingStrategy._calculate_atr
calculate_atr(highs, lows, closes, period) ==
    LET n == Len(closes)
    IN
    IF n < period + 1 THEN Zero
    ELSE
      LET tr == [i \in 1..n |->
                    LET prev_close == IF i > 1 THEN closes[i - 1] ELSE closes[i]
                    IN  RMax(RMax(RSub(highs[i], lows[i]),
                                  FAbs(RSub(highs[i], prev_close))),
                             FAbs(RSub(lows[i], prev_close)))]
      IN  RDiv(Sum(tr, n - period + 1, n), R(period))

\* round(x, 3) for x >= 0 (no tie arises for the values met here)
round3(x) == Norm((2000 * x[1] + x[2]) \div (2 * x[2]), 1000)

\* TurtleTradingStrategy.evaluate, line 92:
\* max(entry_period, exit_period, atr_period) + 1
turtle_required_length(st) ==
    LET m == IF st.entry_period > st.exit_period THEN st.entry_period ELSE st.exit_period
    IN  (IF m > st.atr_period THEN m ELSE st.atr_period) + 1

\* TurtleTradingStrategy.evaluate: the body of its try block
turtle_evaluate_try(st, klines) ==
    LET highs == floats(klines, "high")
        lows == floats(klines, "low")
        closes == floats(klines, "close")
    IN
    IF highs.exc \/ lows.exc \/ closes.exc
    THEN [exc |-> TRUE, msg |-> "could not convert string to float"]
    ELSE IF Len(klines) < turtle_required_length(st)
    THEN [exc |-> FALSE, signal |-> Hold(InsufficientData)]
    ELSE
      LET n == Len(klines)
          current_price == closes.values[n]
          entry == calculate_donchian_channels(highs.values, lows.values, n, st.entry_period)
          atr == calculate_atr(highs.values, lows.values, closes.values, st.atr_period)
          prev_entry == IF n >= st.entry_period + 1
                        THEN calculate_donchian_channels(highs.values, lows.values,
                                                         n - 1, st.entry_period)
                        ELSE [defined |-> FALSE, upper |-> NaN, lower |-> NaN]
          long_signal == /\ entry.defined
                         /\ RLt(entry.upper, current_price)
                         /\ prev_entry.defined
                         /\ RLt(prev_entry.upper, current_price)
          short_signal == /\ entry.defined
                          /\ RLt(current_price, entry.lower)
                          /\ prev_entry.defined
                          /\ RLt(current_price, prev_entry.lower)
          size == IF RLt(Zero, atr) THEN round3(RDiv(R(100), atr)) ELSE Zero
          two_atr == RMul(R(2), atr)
      IN
      IF long_signal
      THEN [exc |-> FALSE,
            signal |-> [action |-> "buy",
                        reason |-> "donchian upper breakout",
                        price |-> current_price,
                        position_size |-> size,
                        stop_loss |-> RSub(current_price, two_atr),
                        take_profit |-> RAdd(current_price, two_atr),
                        indicators |-> [entry_upper |-> entry.upper, atr |-> atr]]]
      ELSE IF short_signal
      THEN [exc |-> FALSE,
            signal |-> [action |-> "sell",
                        reason |-> "donchian lower breakdown",
                        price |-> current_price,
                        position_size |-> size,
                        stop_loss |-> RAdd(current_price, two_atr),
                        take_profit |-> RSub(current_price, two_atr),
                        indicators |-> [entry_lower |-> entry.lower, atr |-> atr]]]
      ELSE [exc |-> FALSE, signal |-> Hold("no clear breakout")]

----------------------------------------------------------------------------
(* Strategies: evaluate                                                     *)

\* the strategies under evaluation, with their constructor arguments
StrategyObjects ==
    [kind : {"trend_following"}, period : {2, 3}, multiplier : {R(2)}]
    \cup [kind : {"mean_reversion"}, period : {2, 3},
          std_dev_multiplier : {<<1, 2>>, R(1), R(2)}]
    \cup [kind : {"turtle_trading"}, entry_period : {1, 2},
          exit_period : {1, 2}, atr_period : {1, 2}]

\* the try block of the evaluate method of the strategy's class
evaluate_try(st, klines) ==
    CASE st.kind = "trend_following" -> tf_evaluate_try(st, klines)
      [] st.kind = "mean_reversion" -> mr_evaluate_try(st, klines)
      [] st.kind = "turtle_trading" -> turtle_evaluate_try(st, klines)

\* an evaluate whose exceptions escape
evaluate_uncaught(st, klines) ==
    LET r == evaluate_try(st, klines)
    IN  IF r.exc THEN Raise ELSE r.signal

\* evaluate of each strategy class: try: ... except Exception as e:
\* return {"action": "hold", "reason": f"错误: {str(e)}"}
evaluate(st, klines) ==
    LET r == evaluate_try(st, klines)
    IN  IF r.exc THEN Hold(ErrorReason(r.msg)) ELSE r.signal

----------------------------------------------------------------------------
(* Backtest signal generators: _backtest_macd, _backtest_rsi,              *)
(* _backtest_grid up to their call of the simulation                        *)

\* longest close series handed to a signal generator
MaxFrame == 4

\* the closes of the historical candles
FrameCloses == {1, 2, 3}

\* the strategies whose signals are generated: type and parameters
GeneratorStrategies ==
    { [type |-> "MACD", fast_period |-> 1, slow_period |-> 2, signal_period |-> 1],
      [type |-> "MACD", fast_period |-> 1, slow_period |-> 3, signal_period |-> 2],
      [type |-> "RSI", period |-> 1, overbought |-> 70, oversold |-> 30],
      [type |-> "RSI", period |-> 2, overbought |-> 70, oversold |-> 30],
      [type |-> "GRID", upper_price |-> 3, lower_price |-> 1, grid_num |-> 2],
      [type |-> "GRID", upper_price |-> 3, lower_price |-> 1, grid_num |-> 4],
      [type |-> "GRID", upper_price |-> 3, lower_price |-> 2, grid_num |-> 1] }

\* Series.ewm(span=span, adjust=False).mean(): y[0] = x[0],
\* y[t] = (1 - alpha) * y[t-1] + alpha * x[t], alpha = 2 / (span + 1)
RECURSIVE ewm_mean(_, _)
ewm_mean(s, span) ==
    IF Len(s) = 0 THEN << >>
    ELSE IF Len(s) = 1 THEN <<s[1]>>
    ELSE LET alpha == RDiv(R(2), R(span + 1))
             before == ewm_mean(SubSeq(s, 1, Len(s) - 1), span)
         IN  Append(before,
                    RAdd(RMul(RSub(R(1), alpha), before[Len(before)]),
                         RMul(alpha, s[Len(s)])))

\* the frame with its two signal columns
WithSignals(closes, is_buy(_), is_sell(_)) ==
    [t \in 1..Len(closes) |->
        [close |-> closes[t], signal_buy |-> is_buy(t), signal_sell |-> is_sell(t)]]

\* _backtest_macd, lines 246-274
macd_signals(params, closes) ==
    LET close == [t \in 1..Len(closes) |-> R(closes[t])]
        fast_ema == ewm_mean(close, params.fast_period)
        slow_ema == ewm_mean(close, params.slow_period)
        macd == [t \in 1..Len(closes) |-> RSub(fast_ema[t], slow_ema[t])]
        signal == ewm_mean(macd, params.signal_period)
        macd_prev == shift(macd, 1)
        signal_prev == shift(signal, 1)
        is_buy(t) == Gt(macd[t], signal[t]) /\ Le(macd_prev[t], signal_prev[t])
        is_sell(t) == Lt(macd[t], signal[t]) /\ Ge(macd_prev[t], signal_prev[t])
    IN  WithSignals(closes, is_buy, is_sell)

\* _backtest_rsi, lines 295-323
rsi_signals(params, closes) ==
    LET n == Len(closes)
        close == [t \in 1..n |-> R(closes[t])]
        price_change == diff(close)
        gain == [t \in 1..n |-> IF Gt(price_change[t], Zero) THEN price_change[t] ELSE Zero]
        loss == [t \in 1..n |-> IF Lt(price_change[t], Zero)
                                THEN RSub(Zero, price_change[t]) ELSE Zero]
        avg_gain == rolling_mean(gain, params.period)
        avg_loss == rolling_mean(loss, params.period)
        rsi == [t \in 1..n |-> rsi_of(rs_of(avg_gain[t], avg_loss[t]))]
        rsi_prev == shift(rsi, 1)
        is_buy(t) == Gt(rsi[t], R(params.oversold)) /\ Le(rsi_prev[t], R(params.oversold))
        is_sell(t) == Lt(rsi[t], R(params.overbought)) /\ Ge(rsi_prev[t], R(params.overbought))
    IN  WithSignals(closes, is_buy, is_sell)

\* _backtest_grid, lines 350-351: the grid levels
grid_levels(params) ==
    LET grid_size == RDiv(RSub(R(params.upper_price), R(params.lower_price)),
                          R(params.grid_num))
    IN  [i \in 1..(params.grid_num + 1) |->
            RAdd(R(params.lower_price), RMul(R(i - 1), grid_size))]

\* a buy test that needs the close to end strictly above the level
crosses_up_strict(prev_close, curr_close, level) ==
    RLt(prev_close, level) /\ RLt(level, curr_close)

\* _backtest_grid, line 365: prev_close < level and curr_close >= level
crosses_up(prev_close, curr_close, level) ==
    RLt(prev_close, level) /\ ~RLt(curr_close, level)

\* _backtest_grid, line 369: prev_close > level and curr_close <= level
crosses_down(prev_close, curr_close, level) ==
    RLt(level, prev_close) /\ ~RLt(level, curr_close)

\* _backtest_grid, lines 344-370
grid_signals(params, closes) ==
    LET levels == grid_levels(params)
        is_buy(t) ==
            /\ t > 1
            /\ \E k \in 1..Len(levels) :
                   crosses_up(R(closes[t - 1]), R(closes[t]), levels[k])
        is_sell(t) ==
            /\ t > 1
            /\ \E k \in 1..Len(levels) :
                   crosses_down(R(closes[t - 1]), R(closes[t]), levels[k])
    IN  WithSignals(closes, is_buy, is_sell)

\* no signal generator is running
GeneratorIdle ==
    /\ gen_strategy = [type |-> "none"]
    /\ gen_closes = << >>
    /\ gen_frame = << >>

----------------------------------------------------------------------------
(* Strategy service: StrategyServiceImpl.validate_strategy_parameters      *)

\* a value of a parameter dictionary: its Python type, its number (int and
\* float) and its text (str); Missing stands for a key the dictionary lacks
PyInt(n) == [t |-> "int", v |-> n, s |-> ""]

PyFloat(n) == [t |-> "float", v |-> n, s |-> ""]

PyStr(text) == [t |-> "str", v |-> 0, s |-> text]

Missing == [t |-> "missing", v |-> 0, s |-> ""]

\* param in parameters
Has(parameters, param) ==
    param \in DOMAIN parameters /\ parameters[param].t # "missing"

\* isinstance(x, int) and isinstance(x, (int, float))
IsInt(x) == x.t = "int"

IsNumber(x) == x.t \in {"int", "float"}

StrategyValidationError == "StrategyValidationError"

\* raise StrategyValidationError(msg) and return True
Raised(msg) == [exc |-> StrategyValidationError, msg |-> msg, ret |-> FALSE]

ReturnedTrue == [exc |-> "", msg |-> "", ret |-> TRUE]

\* the loop over required_params: the first one that is missing, or ""
RECURSIVE first_missing(_, _, _)
first_missing(parameters, required_params, i) ==
    IF i > Len(required_params) THEN ""
    ELSE IF ~Has(parameters, required_params[i]) THEN required_params[i]
    ELSE first_missing(parameters, required_params, i + 1)

valid_timeframes ==
    {"1m", "3m", "5m", "15m", "30m", "1h", "2h", "4h", "6h", "8h", "12h",
     "1d", "3d", "1w", "1M"}

\* parameters['timeframe'] not in valid_timeframes
bad_timeframe(x) == ~(x.t = "str" /\ x.s \in valid_timeframes)

\* not isinstance(x, int) or x <= 0
not_positive_int(x) == ~IsInt(x) \/ x.v <= 0

\* not isinstance(x, (int, float)) or x <= 0
not_positive_number(x) == ~IsNumber(x) \/ x.v <= 0

\* line 365: fast_period >= slow_period
macd_periods_bad(parameters) ==
    parameters.fast_period.v >= parameters.slow_period.v

\* StrategyServiceImpl._validate_macd_parameters
validate_macd_parameters(parameters) ==
    LET required_params == <<"fast_period", "slow_period", "signal_period", "timeframe">>
        missing == first_missing(parameters, required_params, 1)
    IN
    IF missing # "" THEN Raised("Missing required parameter: " \o missing)
    ELSE IF not_positive_int(parameters.fast_period)
    THEN Raised("fast_period must be a positive integer")
    ELSE IF not_positive_int(parameters.slow_period)
    THEN Raised("slow_period must be a positive integer")
    ELSE IF not_positive_int(parameters.signal_period)
    THEN Raised("signal_period must be a positive integer")
    ELSE IF macd_periods_bad(parameters)
    THEN Raised("fast_period must be less than slow_period")
    ELSE IF bad_timeframe(parameters.timeframe)
    THEN Raised("Invalid timeframe: " \o parameters.timeframe.s)
    ELSE ReturnedTrue

\* a test of oversold that lets oversold = overbought through
rsi_oversold_bad_strict(parameters) ==
    \/ ~IsNumber(parameters.oversold)
    \/ parameters.oversold.v <= 0
    \/ parameters.oversold.v > parameters.overbought.v

\* line 401
rsi_oversold_bad(parameters) ==
    \/ ~IsNumber(parameters.oversold)
    \/ parameters.oversold.v <= 0
    \/ parameters.oversold.v >= parameters.overbought.v

\* line 398
rsi_overbought_bad(parameters) ==
    \/ ~IsNumber(parameters.overbought)
    \/ parameters.overbought.v <= 0
    \/ parameters.overbought.v > 100

\* StrategyServiceImpl._validate_rsi_parameters
validate_rsi_parameters(parameters) ==
    LET required_params == <<"period", "overbought", "oversold", "timeframe">>
        missing == first_missing(parameters, required_params, 1)
    IN
    IF missing # "" THEN Raised("Missing required parameter: " \o missing)
    ELSE IF not_positive_int(parameters.period)
    THEN Raised("period must be a positive integer")
    ELSE IF rsi_overbought_bad(parameters)
    THEN Raised("overbought must be a number between 0 and 100")
    ELSE IF rsi_oversold_bad(parameters)
    THEN Raised("oversold must be a number between 0 and overbought")
    ELSE IF bad_timeframe(parameters.timeframe)
    THEN Raised("Invalid timeframe: " \o parameters.timeframe.s)
    ELSE ReturnedTrue

\* line 437: upper_price <= lower_price
grid_prices_bad(parameters) ==
    parameters.upper_price.v <= parameters.lower_price.v

\* StrategyServiceImpl._validate_grid_parameters
validate_grid_parameters(parameters) ==
    LET required_params == <<"upper_price", "lower_price", "grid_num", "quantity">>
        missing == first_missing(parameters, required_params, 1)
    IN
    IF missing # "" THEN Raised("Missing required parameter: " \o missing)
    ELSE IF not_positive_number(parameters.upper_price)
    THEN Raised("upper_price must be a positive number")
    ELSE IF not_positive_number(parameters.lower_price)
    THEN Raised("lower_price must be a positive number")
    ELSE IF grid_prices_bad(parameters)
    THEN Raised("upper_price must be greater than lower_price")
    ELSE IF not_positive_int(parameters.grid_num)
    THEN Raised("grid_num must be a positive integer")
    ELSE IF not_positive_number(parameters.quantity)
    THEN Raised("quantity must be a positive number")
    ELSE ReturnedTrue

\* a validation that takes an unknown type for valid
validate_any_type(type, parameters) ==
    IF type = "MACD" THEN validate_macd_parameters(parameters)
    ELSE IF type = "RSI" THEN validate_rsi_parameters(parameters)
    ELSE IF type = "GRID" THEN validate_grid_parameters(parameters)
    ELSE ReturnedTrue

\* StrategyServiceImpl.validate_strategy_parameters
validate_strategy_parameters(type, parameters) ==
    IF type = "MACD" THEN validate_macd_parameters(parameters)
    ELSE IF type = "RSI" THEN validate_rsi_parameters(parameters)
    ELSE IF type = "GRID" THEN validate_grid_parameters(parameters)
    ELSE Raised("Unsupported strategy type: " \o type)

\* the strategy types handed to the services; "BOLL" and "macd" are not
\* supported
StrategyTypes == {"MACD", "RSI", "GRID", "BOLL", "macd"}

\* the parameter dictionaries handed to validate_strategy_parameters
MacdParameters ==
    [fast_period : {Missing, PyInt(0), PyInt(1), PyInt(2), PyFloat(1)},
     slow_period : {Missing, PyInt(0), PyInt(1), PyInt(2), PyStr("26")},
     signal_period : {Missing, PyInt(0), PyInt(9)},
     timeframe : {Missing, PyStr("1h"), PyStr("2y")}]

RsiParameters ==
    [period : {Missing, PyInt(0), PyInt(14)},
     overbought : {Missing, PyInt(70), PyInt(101), PyFloat(30), PyStr("70")},
     oversold : {Missing, PyInt(0), PyInt(30), PyInt(70), PyInt(80)},
     timeframe : {Missing, PyStr("1h"), PyStr("2y")}]

GridParameters ==
    [upper_price : {Missing, PyInt(0), PyInt(90), PyInt(110)},
     lower_price : {Missing, PyInt(90), PyFloat(110), PyStr("90")},
     grid_num : {Missing, PyInt(0), PyInt(2), PyFloat(2)},
     quantity : {Missing, PyInt(0), PyInt(1)}]

ParameterDicts == MacdParameters \cup RsiParameters \cup GridParameters

\* no validation is under way
ValidationIdle ==
    /\ v_type = "none"
    /\ v_parameters = << >>
    /\ v_result = [exc |-> "", msg |-> "", ret |-> FALSE]

----------------------------------------------------------------------------
(* Strategy service: StrategyServiceImpl.create_strategy                   *)

\* the number of strategies the repository is let to hold
MaxStrategies == 2

\* the symbol ids handed to create_strategy, and those the symbol service
\* knows
SymbolIds == {"sym-1", "sym-9"}

KnownSymbolIds == {"sym-1"}

\* the parameter dictionaries handed to create_strategy
CreateParameters ==
    { [fast_period |-> PyInt(1), slow_period |-> PyInt(2),
       signal_period |-> PyInt(9), timeframe |-> PyStr("1h")],
      [fast_period |-> PyInt(2), slow_period |-> PyInt(2),
       signal_period |-> PyInt(9), timeframe |-> PyStr("1h")],
      [period |-> PyInt(14), overbought |-> PyInt(70),
       oversold |-> PyInt(30), timeframe |-> PyStr("1h")],
      [upper_price |-> PyInt(110), lower_price |-> PyInt(90),
       grid_num |-> PyInt(2), quantity |-> PyInt(1)] }

NoStrategy == [id |-> 0]

NoOutcome == [op |-> "none", exc |-> "", ret |-> NoReport]

\* create_strategy(name, symbol_id, type, parameters) on a repository and an
\* event bus: the exception raised or the strategy returned, and the
\* repository and the bus afterwards.  Strategy.create gives the strategy a
\* fresh id, here the next free number.
create_strategy(symbol_id, type, parameters, repo, bus) ==
    LET valid == validate_strategy_parameters(type, parameters)
        saved_strategy == [id |-> Len(repo) + 1,
                           symbol_id |-> symbol_id,
                           type |-> type,
                           parameters |-> parameters,
                           is_active |-> FALSE]
    IN
    IF symbol_id \notin KnownSymbolIds
    THEN [exc |-> "SymbolNotFoundError", ret |-> NoStrategy,
          repository |-> repo, event_bus |-> bus]
    ELSE IF valid.exc # ""
    THEN [exc |-> valid.exc, ret |-> NoStrategy, repository |-> repo, event_bus |-> bus]
    ELSE IF ~valid.ret
    THEN [exc |-> StrategyValidationError, ret |-> NoStrategy,
          repository |-> repo, event_bus |-> bus]
    ELSE [exc |-> "", ret |-> saved_strategy,
          repository |-> Append(repo, saved_strategy),
          event_bus |-> Append(bus, [event |-> "StrategyCreatedEvent",
                                     strategy_id |-> saved_strategy.id,
                                     symbol_id |-> saved_strategy.symbol_id,
                                     type |-> saved_strategy.type])]

\* most activation and deactivation events published in one behaviour
MaxToggles == 3

\* the strategy ids handed to the service: those of the repository and one
\* that is unknown
StrategyIds == 1..(MaxStrategies + 1)

\* Strategy.activate() and Strategy.deactivate(): the strategy with its
\* is_active flag set and cleared
strategy_activate(s) == [s EXCEPT !.is_active = TRUE]

strategy_deactivate(s) == [s EXCEPT !.is_active = FALSE]

\* get_strategy: self._repository.get_by_id(strategy_id), NoStrategy for
\* StrategyNotFoundError
get_strategy(strategy_id, repo) ==
    IF strategy_id \in 1..Len(repo) THEN repo[strategy_id] ELSE NoStrategy

\* self._repository.save(strategy) of a strategy that is in the repository
repository_save(repo, s) == [repo EXCEPT ![s.id] = s]

NotFound(repo, bus) ==
    [exc |-> "StrategyNotFoundError", ret |-> NoStrategy, saved |-> FALSE,
     repository |-> repo, event_bus |-> bus]

\* an activation that does not look at is_active
activate_strategy_unguarded(strategy_id, repo, bus) ==
    LET s == get_strategy(strategy_id, repo)
        activated_strategy == strategy_activate(s)
    IN  IF s = NoStrategy THEN NotFound(repo, bus)
        ELSE [exc |-> "", ret |-> activated_strategy, saved |-> TRUE,
              repository |-> repository_save(repo, activated_strategy),
              event_bus |-> Append(bus, [event |-> "StrategyActivatedEvent",
                                         strategy_id |-> activated_strategy.id])]

\* StrategyServiceImpl.activate_strategy
activate_strategy(strategy_id, repo, bus) ==
    LET s == get_strategy(strategy_id, repo)
        activated_strategy == strategy_activate(s)
    IN  IF s = NoStrategy THEN NotFound(repo, bus)
        ELSE IF s.is_active
        THEN [exc |-> "", ret |-> s, saved |-> FALSE,
              repository |-> repo, event_bus |-> bus]
        ELSE [exc |-> "", ret |-> activated_strategy, saved |-> TRUE,
              repository |-> repository_save(repo, activated_strategy),
              event_bus |-> Append(bus, [event |-> "StrategyActivatedEvent",
                                         strategy_id |-> activated_strategy.id])]

\* StrategyServiceImpl.deactivate_strategy
deactivate_strategy(strategy_id, repo, bus) ==
    LET s == get_strategy(strategy_id, repo)
        deactivated_strategy == strategy_deactivate(s)
    IN  IF s = NoStrategy THEN NotFound(repo, bus)
        ELSE IF ~s.is_active
        THEN [exc |-> "", ret |-> s, saved |-> FALSE,
              repository |-> repo, event_bus |-> bus]
        ELSE [exc |-> "", ret |-> deactivated_strategy, saved |-> TRUE,
              repository |-> repository_save(repo, deactivated_strategy),
              event_bus |-> Append(bus, [event |-> "StrategyDeactivatedEvent",
                                         strategy_id |-> deactivated_strategy.id])]

\* the activation and deactivation events of a bus
ToggleEvents == {"StrategyActivatedEvent", "StrategyDeactivatedEvent"}

Toggles(bus) == Cardinality({i \in 1..Len(bus) : bus[i].event \in ToggleEvents})

\* no strategy service is in use
StrategyServiceIdle ==
    /\ repository = << >>
    /\ event_bus = << >>
    /\ cs_result = NoOutcome

----------------------------------------------------------------------------
(* Backtest service: BacktestServiceImpl.run_backtest                       *)

\* the number of candles of the exchange's history
MaxHistory == 2

\* the number of results the service is let to store
MaxResults == 2

\* the candle series the exchange returns for the dates asked: their closes
Histories == UNION {[1..n -> Closes] : n \in 0..MaxHistory}

\* dict.get(key, default)
Get(params, key, default) ==
    IF key \in DOMAIN params THEN params[key] ELSE default

\* the Strategy objects handed to run_backtest: id, type and
\* get_parameters()
BacktestStrategies ==
    { [id |-> "macd-1", type |-> "MACD",
       parameters |-> [fast_period |-> 1, slow_period |-> 2, signal_period |-> 1]],
      [id |-> "rsi-1", type |-> "RSI",
       parameters |-> [period |-> 1, overbought |-> 70, oversold |-> 30]],
      [id |-> "grid-1", type |-> "GRID",
       parameters |-> [upper_price |-> 3, lower_price |-> 1, grid_num |-> 2]],
      [id |-> "grid-2", type |-> "GRID",
       parameters |-> [upper_price |-> 3, lower_price |-> 1]],
      [id |-> "boll-1", type |-> "BOLL",
       parameters |-> [period |-> 2]] }

\* the candle loop of _run_backtest_simulation from row i on
RECURSIVE candle_loop(_, _, _, _, _, _)
candle_loop(in, i, bal, pos, entry, trs) ==
    IF i > Len(in.df) THEN [bal |-> bal, pos |-> pos, trs |-> trs]
    ELSE IF buy_condition(in.df[i], bal)
    THEN LET b == buy(in, i, bal)
         IN  candle_loop(in, i + 1, b.balance, b.position, b.entry_price,
                         Append(trs, b.trade))
    ELSE IF sell_condition(in.df[i], pos)
    THEN LET r == sell(in, i, pos, entry)
         IN  candle_loop(in, i + 1, r.balance, r.position, r.entry_price,
                         Append(trs, r.trade))
    ELSE candle_loop(in, i + 1, bal, pos, entry, trs)

\* _run_backtest_simulation(df, initial_balance, fee_rate): the exception it
\* raises (portfolio_values[0] of an empty frame) or the result it returns
\* (the frame and the end of the loop are computed once: frame \in {df})
run_backtest_simulation(df, initial_balance, fee_rate) ==
    LET input(frame) == [df |-> frame, initial_balance |-> initial_balance,
                         fee_rate |-> fee_rate, candles_per_day |-> 1]
        after_loop(in, end) ==
            IF Len(in.df) = 0 THEN [exc |-> "IndexError", ret |-> NoReport]
            ELSE [exc |-> "",
                  ret |-> backtest_result(in, end.trs, end.bal, end.pos)]
    IN  CHOOSE outcome \in
            UNION {{after_loop(input(frame), end) :
                       end \in {candle_loop(input(frame), 1, initial_balance,
                                            Zero, Zero, << >>)}} :
                   frame \in {df}} : TRUE

\* _backtest_macd: df['close'] of a frame without columns raises KeyError
backtest_macd(closes, params, initial_balance, fee_rate) ==
    IF Len(closes) = 0 THEN [exc |-> "KeyError", ret |-> NoReport]
    ELSE run_backtest_simulation(
             macd_signals([fast_period |-> Get(params, "fast_period", 12),
                           slow_period |-> Get(params, "slow_period", 26),
                           signal_period |-> Get(params, "signal_period", 9)],
                          closes),
             initial_balance, fee_rate)

\* _backtest_rsi
backtest_rsi(closes, params, initial_balance, fee_rate) ==
    IF Len(closes) = 0 THEN [exc |-> "KeyError", ret |-> NoReport]
    ELSE run_backtest_simulation(
             rsi_signals([period |-> Get(params, "period", 14),
                          overbought |-> Get(params, "overbought", 70),
                          oversold |-> Get(params, "oversold", 30)],
                         closes),
             initial_balance, fee_rate)

\* _backtest_grid: params.get() of a missing key is None, and the grid size
\* of None raises TypeError
backtest_grid(closes, params, initial_balance, fee_rate) ==
    IF {"upper_price", "lower_price", "grid_num"} \ DOMAIN params # {}
    THEN [exc |-> "TypeError", ret |-> NoReport]
    ELSE IF params.grid_num = 0 THEN [exc |-> "ZeroDivisionError", ret |-> NoReport]
    ELSE run_backtest_simulation(grid_signals(params, closes),
                                 initial_balance, fee_rate)

\* save_backtest_result: uuid4 gives a fresh id, here the next free number
\* (the timestamp is left out)
save_backtest_result(strategy_id, res, results) ==
    [backtest_id |-> Len(results) + 1,
     results |-> Append(results, res @@ [strategy_id |-> strategy_id])]

\* a run_backtest that stores what it has before it dispatches on the type
run_backtest_stores_first(strat, fetched, initial_balance, fee_rate, results) ==
    LET params == strat.parameters
        dispatch ==
            IF strat.type = "MACD"
            THEN backtest_macd(fetched.data, params, initial_balance, fee_rate)
            ELSE IF strat.type = "RSI"
            THEN backtest_rsi(fetched.data, params, initial_balance, fee_rate)
            ELSE IF strat.type = "GRID"
            THEN backtest_grid(fetched.data, params, initial_balance, fee_rate)
            ELSE [exc |-> StrategyValidationError, ret |-> NoReport]
        stored(saved) ==
            [exc |-> "",
             ret |-> saved.results[saved.backtest_id]
                         @@ [backtest_id |-> saved.backtest_id],
             results |-> [saved.results EXCEPT ![saved.backtest_id] =
                              @ @@ [backtest_id |-> saved.backtest_id]]]
        finish(outcome) ==
            IF outcome.exc # ""
            THEN [exc |-> outcome.exc, ret |-> NoReport,
                  results |-> save_backtest_result(
                                  strat.id, [status |-> "partial"], results).results]
            ELSE stored(save_backtest_result(strat.id, outcome.ret, results))
    IN
    IF fetched.exc # "" THEN [exc |-> fetched.exc, ret |-> NoReport, results |-> results]
    ELSE finish(dispatch)

\* run_backtest(strategy, start_date, end_date, initial_balance, fee_rate)
\* with what get_historical_data did (raised, or returned candles): the
\* exception raised or the result returned, and _backtest_results afterwards.
\* result['backtest_id'] = result_id writes to the stored dictionary too.
run_backtest(strat, fetched, initial_balance, fee_rate, results) ==
    LET params == strat.parameters
        dispatch ==
            IF strat.type = "MACD"
            THEN backtest_macd(fetched.data, params, initial_balance, fee_rate)
            ELSE IF strat.type = "RSI"
            THEN backtest_rsi(fetched.data, params, initial_balance, fee_rate)
            ELSE IF strat.type = "GRID"
            THEN backtest_grid(fetched.data, params, initial_balance, fee_rate)
            ELSE [exc |-> StrategyValidationError, ret |-> NoReport]
        stored(saved) ==
            [exc |-> "",
             ret |-> saved.results[saved.backtest_id]
                         @@ [backtest_id |-> saved.backtest_id],
             results |-> [saved.results EXCEPT ![saved.backtest_id] =
                              @ @@ [backtest_id |-> saved.backtest_id]]]
        finish(outcome) ==
            IF outcome.exc # ""
            THEN [exc |-> outcome.exc, ret |-> NoReport, results |-> results]
            ELSE stored(save_backtest_result(strat.id, outcome.ret, results))
    IN
    IF fetched.exc # "" THEN [exc |-> fetched.exc, ret |-> NoReport, results |-> results]
    ELSE finish(dispatch)

\* get_backtest_result(backtest_id)
get_backtest_result(backtest_id, results) ==
    IF backtest_id \notin DOMAIN results
    THEN [exc |-> "ValueError", ret |-> NoReport]
    ELSE [exc |-> "", ret |-> results[backtest_id]]

\* no backtest service is in use
BacktestServiceIdle ==
    /\ market = << >>
    /\ backtest_results = << >>
    /\ rb_result = NoOutcome

----------------------------------------------------------------------------
(* Live engine: TradingEngine._init_strategies                              *)

\* the modules of the strategies package
StrategyModules == {"trend_following", "mean_reversion", "turtle_trading"}

\* the strategy names a configuration gives to a symbol
StrategyNames == StrategyModules \cup {"macd", "TrendFollowing"}

\* config['trading']['symbols']: symbols in the order of the dictionary,
\* each with its strategy name
TradingConfigs ==
    {<<[symbol |-> a, strategy |-> x]>> :
        a \in {"BTCUSDT", "ETHUSDT"}, x \in StrategyNames}
    \cup {<<[symbol |-> "BTCUSDT", strategy |-> x],
            [symbol |-> "ETHUSDT", strategy |-> y]>> :
        x \in StrategyNames, y \in StrategyNames}

\* f"{strategy_name.title().replace('_', '')}Strategy"
class_name(strategy_name) ==
    IF strategy_name = "trend_following" THEN "TrendFollowingStrategy"
    ELSE IF strategy_name = "mean_reversion" THEN "MeanReversionStrategy"
    ELSE IF strategy_name = "turtle_trading" THEN "TurtleTradingStrategy"
    ELSE IF strategy_name = "macd" THEN "MacdStrategy"
    ELSE "TrendfollowingStrategy"

\* the class each module of the package defines
StrategyClasses ==
    [m \in StrategyModules |->
        IF m = "trend_following" THEN "TrendFollowingStrategy"
        ELSE IF m = "mean_reversion" THEN "MeanReversionStrategy"
        ELSE "TurtleTradingStrategy"]

\* _init_strategies: the loop over the configured symbols from the i-th on
RECURSIVE init_strategies(_, _, _)
init_strategies(trading_symbols, i, built) ==
    IF i > Len(trading_symbols) THEN [exc |-> "", strategies |-> built]
    ELSE LET strategy_name == trading_symbols[i].strategy
         IN  IF strategy_name \notin StrategyModules
             THEN [exc |-> "ModuleNotFoundError", strategies |-> << >>]
             ELSE IF StrategyClasses[strategy_name] # class_name(strategy_name)
             THEN [exc |-> "AttributeError", strategies |-> << >>]
             ELSE init_strategies(trading_symbols, i + 1,
                      built @@ (trading_symbols[i].symbol :> strategy_name))

NotConstructed == [config |-> << >>, called |-> FALSE, exc |-> "", strategies |-> << >>]

\* no engine is under construction
ConstructionIdle == engine_init = NotConstructed

----------------------------------------------------------------------------
(* Live engine: TradingEngine.run_continuously                              *)

\* a driver that gives up after a pass that returned False
after_pass_stops_on_failure(outcome) ==
    IF outcome = "raised" THEN "alert"
    ELSE IF outcome = "False" THEN "stopped"
    ELSE "sleep"

\* where the loop goes after self.run_once(): to time.sleep(interval) of
\* the try block when it returned (True or False), to the handler of
\* Exception when it raised
after_pass(outcome) ==
    IF outcome = "raised" THEN "alert" ELSE "sleep"

\* run_continuously is not running
DriverIdle ==
    /\ dr_pc = "idle"
    /\ dr_last = "none"
    /\ dr_sleeps = 0

----------------------------------------------------------------------------
(* MemoryEventBus: adapter/event/memory_event_bus.py                        *)

\* the handler objects that can be subscribed
MaxHandlers == 3

Handlers == 1..MaxHandlers

\* the classes of the events published: the base class and a subclass
EventTypes == {"Event", "ExampleCreatedEvent"}

\* a key that is not in the dict self._handlers
NoKey == [present |-> FALSE, list |-> << >>]

\* the elements of a list
Elements(list) == {list[i] : i \in 1..Len(list)}

\* self._handlers.get(event_type, [])
handlers_get(subs, event_type) ==
    IF subs[event_type].present THEN subs[event_type].list ELSE << >>

\* a loop whose handler errors are not caught
handler_error_propagates(raised) == raised

\* lines 43-46: try: handler.handle(event) / except Exception: log the
\* error; whether the exception leaves the loop
handler_error_escapes(raised) == FALSE

\* lines 42-46: the loop over the handlers; raising are the handlers whose
\* handle raises for this event
RECURSIVE deliver(_, _, _, _)
deliver(list, i, raising, log) ==
    IF i > Len(list) THEN [exc |-> FALSE, log |-> log]
    ELSE LET raised == list[i] \in raising
             called == Append(log, [handler |-> list[i], raised |-> raised])
         IN  IF handler_error_escapes(raised)
             THEN [exc |-> TRUE, log |-> called]
             ELSE deliver(list, i + 1, raising, called)

\* MemoryEventBus.publish
publish(subs, event_type, raising) ==
    LET list == handlers_get(subs, event_type)
    IN  IF list = << >> THEN [exc |-> FALSE, log |-> << >>]
        ELSE deliver(list, 1, raising, << >>)

\* MemoryEventBus.subscribe
subscribe(subs, event_type, handler) ==
    LET with_key == IF ~subs[event_type].present
                    THEN [subs EXCEPT ![event_type] =
                              [present |-> TRUE, list |-> << >>]]
                    ELSE subs
    IN  IF handler \notin Elements(with_key[event_type].list)
        THEN [with_key EXCEPT ![event_type].list = Append(@, handler)]
        ELSE with_key

\* list.remove(x): the first occurrence of x is taken out
list_remove(list, x) ==
    LET i == CHOOSE k \in 1..Len(list) :
                 list[k] = x /\ \A j \in 1..(k - 1) : list[j] # x
    IN  SubSeq(list, 1, i - 1) \o SubSeq(list, i + 1, Len(list))

\* MemoryEventBus.unsubscribe
unsubscribe(subs, event_type, handler) ==
    IF subs[event_type].present /\ handler \in Elements(subs[event_type].list)
    THEN LET rest == list_remove(subs[event_type].list, handler)
         IN  IF rest = << >>
             THEN [subs EXCEPT ![event_type] = NoKey]
             ELSE [subs EXCEPT ![event_type].list = rest]
    ELSE subs

\* no event bus has been constructed
EventBusIdle ==
    /\ handlers = [t \in EventTypes |-> NoKey]
    /\ deliveries = << >>
    /\ bus_result = [op |-> "none"]

\* no strategy is under evaluation
StrategyIdle ==
    /\ strategy = [kind |-> "none"]
    /\ candles = << >>
    /\ st_signal = None

----------------------------------------------------------------------------
(* Live engine: state machine                                              *)

\* TradingEngine.__init__
EngineInit ==
    /\ mode \in Modes
    /\ strategies \in StrategyConfigs
    /\ last_signals = [s \in AllSymbols |-> None]
    /\ positions = [s \in AllSymbols |-> NoPosition]
    /\ signals = [s \in AllSymbols |-> None]
    /\ events = <<>>
    /\ result = [call |-> "none", ret |-> "none"]

\* no engine is running
EngineIdle ==
    /\ mode = "none"
    /\ strategies = << >>
    /\ last_signals = [s \in AllSymbols |-> None]
    /\ positions = [s \in AllSymbols |-> NoPosition]
    /\ signals = [s \in AllSymbols |-> None]
    /\ events = << >>
    /\ result = [call |-> "none", ret |-> "none"]

Complete(call, r) ==
    /\ last_signals' = r.last
    /\ positions' = r.pos
    /\ signals' = r.signals
    /\ events' = r.events
    /\ result' = [call |-> call, ret |-> r.ret]
    /\ UNCHANGED <<mode, strategies>>
    /\ EngineRest

\* place_order is only reached in auto mode: elsewhere its outcome is fixed
Consulted(in) == IF mode = "auto" THEN TRUE ELSE in.order

\* a call of run_once_for_symbol(symbol)
RunOnceForSymbol ==
    /\ mode \in Modes
    /\ \E symbol \in AllSymbols, in \in CycleInputs :
        /\ Consulted(in)
        /\ Complete("run_once_for_symbol", run_once_for_symbol(symbol, in))
    /\ UNCHANGED driver_vars

\* a call of run_once()
RunOnce ==
    /\ mode \in Modes
    /\ \E inp \in [StrategyKeys -> CycleInputs] :
        /\ \A s \in StrategyKeys : Consulted(inp[s])
        /\ Complete("run_once", run_once(inp))
    /\ UNCHANGED driver_vars

EngineNext == RunOnceForSymbol \/ RunOnce

EngineStart ==
    EngineInit /\ BacktestIdle /\ StrategyIdle /\ GeneratorIdle /\ ValidationIdle
    /\ StrategyServiceIdle /\ BacktestServiceIdle /\ ConstructionIdle
    /\ DriverIdle /\ EventBusIdle

SpecEngine == EngineStart /\ [][EngineNext]_vars

----------------------------------------------------------------------------
(* Backtest simulator: state machine                                       *)

\* _run_backtest_simulation(df, initial_balance, fee_rate) is called:
\* lines 388-391
BacktestInit ==
    /\ bt_input \in [df : {<< >>},
                      initial_balance : InitialBalances,
                      fee_rate : FeeRates,
                      candles_per_day : CandlesPerDay]
    /\ bt_pc = "loop"
    /\ balance = bt_input.initial_balance
    /\ position = Zero
    /\ entry_price = Zero
    /\ trades = << >>
    /\ ledger = << >>
    /\ report = NoReport

\* the loop reads the next row of the series
Reads(row) ==
    /\ bt_pc = "loop"
    /\ Len(bt_input.df) < MaxCandles
    /\ bt_input' = [bt_input EXCEPT !.df = Append(@, row)]

Advance ==
    /\ ledger' = Append(ledger, [balance |-> balance', position |-> position'])
    /\ UNCHANGED <<bt_pc, report>>
    /\ BacktestRest

\* one pass of the candle loop that takes the buy branch
BacktestBuy ==
    \E row \in Rows :
        /\ Reads(row)
        /\ buy_condition(row, balance)
        /\ LET b == buy(bt_input', Len(bt_input'.df), balance)
           IN  /\ balance' = b.balance
               /\ position' = b.position
               /\ entry_price' = b.entry_price
               /\ trades' = Append(trades, b.trade)
        /\ Advance

\* one pass of the candle loop that takes the sell branch
BacktestSell ==
    \E row \in Rows :
        /\ Reads(row)
        /\ ~buy_condition(row, balance)
        /\ sell_condition(row, position)
        /\ LET r == sell(bt_input', Len(bt_input'.df), position, entry_price)
           IN  /\ balance' = r.balance
               /\ position' = r.position
               /\ entry_price' = r.entry_price
               /\ trades' = Append(trades, r.trade)
        /\ Advance

\* one pass of the candle loop that takes neither branch
BacktestSkip ==
    \E row \in Rows :
        /\ Reads(row)
        /\ ~buy_condition(row, balance)
        /\ ~sell_condition(row, position)
        /\ UNCHANGED <<balance, position, entry_price, trades>>
        /\ Advance

\* the series ends; after the loop: the metrics and the result (lines 451-508)
BacktestFinish ==
    /\ bt_pc = "loop"
    /\ Len(bt_input.df) > 0
    /\ report' = backtest_result(bt_input, trades, balance, position)
    /\ bt_pc' = "done"
    /\ UNCHANGED <<bt_input, balance, position, entry_price, trades, ledger>>
    /\ BacktestRest

\* the series is empty: after the loop, portfolio_values[0] raises IndexError
BacktestRaise ==
    /\ bt_pc = "loop"
    /\ Len(bt_input.df) = 0
    /\ bt_pc' = "raised"
    /\ UNCHANGED <<bt_input, balance, position, entry_price, trades,
                   ledger, report>>
    /\ BacktestRest

BacktestNext ==
    BacktestBuy \/ BacktestSell \/ BacktestSkip \/ BacktestFinish \/ BacktestRaise

BacktestStart ==
    BacktestInit /\ EngineIdle /\ StrategyIdle /\ GeneratorIdle /\ ValidationIdle
    /\ StrategyServiceIdle /\ BacktestServiceIdle /\ ConstructionIdle
    /\ DriverIdle /\ EventBusIdle

SpecBacktest == BacktestStart /\ [][BacktestNext]_vars

----------------------------------------------------------------------------
(* Strategies: state machine                                               *)

\* a strategy object is constructed
StrategyInit ==
    /\ strategy \in StrategyObjects
    /\ candles = << >>
    /\ st_signal = None

\* the market moves on: the kline list handed to evaluate grows by a candle
FetchKline ==
    /\ strategy.kind # "none"
    /\ Len(candles) < MaxKlines
    /\ \E k \in Klines : candles' = Append(candles, k)
    /\ st_signal' = None
    /\ UNCHANGED strategy
    /\ StrategyRest

\* evaluate(klines) is called and its return value kept
Evaluated ==
    /\ st_signal' = evaluate(strategy, candles)
    /\ UNCHANGED <<strategy, candles>>
    /\ StrategyRest

\* TrendFollowingStrategy.evaluate(klines)
TrendFollowingEvaluate ==
    /\ strategy.kind = "trend_following"
    /\ Evaluated

\* MeanReversionStrategy.evaluate(klines)
MeanReversionEvaluate ==
    /\ strategy.kind = "mean_reversion"
    /\ Evaluated

\* TurtleTradingStrategy.evaluate(klines)
TurtleTradingEvaluate ==
    /\ strategy.kind = "turtle_trading"
    /\ Evaluated

StrategyNext ==
    \/ FetchKline
    \/ TrendFollowingEvaluate
    \/ MeanReversionEvaluate
    \/ TurtleTradingEvaluate

StrategyStart ==
    StrategyInit /\ EngineIdle /\ BacktestIdle /\ GeneratorIdle /\ ValidationIdle
    /\ StrategyServiceIdle /\ BacktestServiceIdle /\ ConstructionIdle
    /\ DriverIdle /\ EventBusIdle

SpecStrategy == StrategyStart /\ [][StrategyNext]_vars

----------------------------------------------------------------------------
(* Backtest signal generators: state machine                               *)

\* _backtest_macd, _backtest_rsi or _backtest_grid is called for a strategy
GeneratorInit ==
    /\ gen_strategy \in GeneratorStrategies
    /\ gen_closes = << >>
    /\ gen_frame = << >>

\* the historical data holds one more candle
MoreHistory ==
    /\ gen_strategy.type # "none"
    /\ Len(gen_closes) < MaxFrame
    /\ \E c \in FrameCloses : gen_closes' = Append(gen_closes, c)
    /\ gen_frame' = << >>
    /\ UNCHANGED gen_strategy
    /\ GeneratorRest

\* the signal columns of _backtest_macd
MacdSignals ==
    /\ gen_strategy.type = "MACD"
    /\ Len(gen_closes) > 0
    /\ gen_frame' = macd_signals(gen_strategy, gen_closes)
    /\ UNCHANGED <<gen_strategy, gen_closes>>
    /\ GeneratorRest

\* the signal columns of _backtest_rsi
RsiSignals ==
    /\ gen_strategy.type = "RSI"
    /\ Len(gen_closes) > 0
    /\ gen_frame' = rsi_signals(gen_strategy, gen_closes)
    /\ UNCHANGED <<gen_strategy, gen_closes>>
    /\ GeneratorRest

\* the signal columns of _backtest_grid
GridSignals ==
    /\ gen_strategy.type = "GRID"
    /\ Len(gen_closes) > 0
    /\ gen_frame' = grid_signals(gen_strategy, gen_closes)
    /\ UNCHANGED <<gen_strategy, gen_closes>>
    /\ GeneratorRest

GeneratorNext == MoreHistory \/ MacdSignals \/ RsiSignals \/ GridSignals

GeneratorStart ==
    GeneratorInit /\ EngineIdle /\ BacktestIdle /\ StrategyIdle /\ ValidationIdle
    /\ StrategyServiceIdle /\ BacktestServiceIdle /\ ConstructionIdle
    /\ DriverIdle /\ EventBusIdle

SpecGenerator == GeneratorStart /\ [][GeneratorNext]_vars

----------------------------------------------------------------------------
(* Strategy service: validation as a state machine                         *)

NotCalled == [exc |-> "", msg |-> "", ret |-> FALSE]

\* a caller holds a type and a parameter dictionary
ValidationInit ==
    /\ v_type \in StrategyTypes
    /\ v_parameters \in ParameterDicts
    /\ v_result = NotCalled

\* validate_strategy_parameters(type, parameters) is called
ValidateStrategyParameters ==
    /\ v_type # "none"
    /\ v_result' = validate_strategy_parameters(v_type, v_parameters)
    /\ UNCHANGED <<v_type, v_parameters>>
    /\ ValidationRest

ValidationNext == ValidateStrategyParameters

ValidationStart ==
    /\ ValidationInit /\ EngineIdle /\ BacktestIdle /\ StrategyIdle
    /\ GeneratorIdle
    /\ StrategyServiceIdle /\ BacktestServiceIdle /\ ConstructionIdle
    /\ DriverIdle /\ EventBusIdle

SpecValidation == ValidationStart /\ [][ValidationNext]_vars

----------------------------------------------------------------------------
(* Strategy service: state machine                                          *)

StrategyServiceInit ==
    /\ repository = << >>
    /\ event_bus = << >>
    /\ cs_result = [op |-> "new", exc |-> "", ret |-> NoStrategy]

\* create_strategy(name, symbol_id, type, parameters) is called
CreateStrategy ==
    /\ cs_result.op # "none"
    /\ Len(repository) < MaxStrategies
    /\ \E symbol_id \in SymbolIds, type \in StrategyTypes,
          parameters \in CreateParameters :
          LET r == create_strategy(symbol_id, type, parameters,
                                   repository, event_bus)
          IN  /\ repository' = r.repository
              /\ event_bus' = r.event_bus
              /\ cs_result' = [op |-> "create_strategy",
                               symbol_id |-> symbol_id, type |-> type,
                               exc |-> r.exc, ret |-> r.ret]
    /\ UNCHANGED <<engine_vars, bt_vars, strategy_vars, gen_vars,
                   validation_vars, backtest_service_vars, engine_init,
                   driver_vars, bus_vars>>

StrategyServiceNext == CreateStrategy

StrategyServiceRest ==
    UNCHANGED <<engine_vars, bt_vars, strategy_vars, gen_vars,
                validation_vars, backtest_service_vars, engine_init,
                driver_vars, bus_vars>>

\* a call of the service returned or raised
Returned(op, strategy_id, r) ==
    /\ Toggles(r.event_bus) <= MaxToggles
    /\ repository' = r.repository
    /\ event_bus' = r.event_bus
    /\ cs_result' = [op |-> op, strategy_id |-> strategy_id,
                     exc |-> r.exc, ret |-> r.ret, saved |-> r.saved]
    /\ StrategyServiceRest

\* activate_strategy(strategy_id) is called
ActivateStrategy ==
    /\ cs_result.op # "none"
    /\ \E strategy_id \in StrategyIds :
           Returned("activate_strategy", strategy_id,
                    activate_strategy(strategy_id, repository, event_bus))

\* deactivate_strategy(strategy_id) is called
DeactivateStrategy ==
    /\ cs_result.op # "none"
    /\ \E strategy_id \in StrategyIds :
           Returned("deactivate_strategy", strategy_id,
                    deactivate_strategy(strategy_id, repository, event_bus))

ActivationNext == CreateStrategy \/ ActivateStrategy \/ DeactivateStrategy

StrategyServiceStart ==
    /\ StrategyServiceInit
    /\ EngineIdle /\ BacktestIdle /\ StrategyIdle /\ GeneratorIdle
    /\ ValidationIdle /\ BacktestServiceIdle /\ ConstructionIdle
    /\ DriverIdle /\ EventBusIdle

\* create_strategy, activate_strategy and deactivate_strategy on one service
SpecActivation == StrategyServiceStart /\ [][ActivationNext]_vars

----------------------------------------------------------------------------
(* Backtest service: state machine                                          *)

\* a service without results, and the history the exchange holds
BacktestServiceInit ==
    /\ market \in Histories
    /\ backtest_results = << >>
    /\ rb_result = [op |-> "new", exc |-> "", ret |-> NoReport]

\* run_backtest(strategy, start_date, end_date, initial_balance, fee_rate) is
\* called; the fetch of the history raises, or returns the candles of the
\* dates asked: the exchange's, or none
RunBacktest ==
    /\ rb_result.op # "none"
    /\ Len(backtest_results) < MaxResults
    /\ \E strat \in BacktestStrategies,
          fetched \in {[exc |-> "", data |-> market],
                       [exc |-> "", data |-> << >>],
                       [exc |-> "BinanceAPIException", data |-> << >>]},
          initial_balance \in InitialBalances, fee_rate \in FeeRates :
          \E r \in {run_backtest(strat, fetched, initial_balance, fee_rate,
                                  backtest_results)} :
              /\ backtest_results' = r.results
              /\ rb_result' = [op |-> "run_backtest", type |-> strat.type,
                               fetch |-> fetched.exc,
                               candles |-> Len(fetched.data),
                               exc |-> r.exc, ret |-> r.ret]
    /\ UNCHANGED <<market, engine_vars, bt_vars, strategy_vars, gen_vars,
                   validation_vars, strategy_service_vars, engine_init,
                   driver_vars, bus_vars>>

\* get_backtest_result(backtest_id) is called
GetBacktestResult ==
    /\ rb_result.op # "none"
    /\ \E backtest_id \in 1..(MaxResults + 1) :
          LET r == get_backtest_result(backtest_id, backtest_results)
          IN  rb_result' = [op |-> "get_backtest_result", id |-> backtest_id,
                            exc |-> r.exc, ret |-> r.ret]
    /\ UNCHANGED <<market, backtest_results, engine_vars, bt_vars,
                   strategy_vars, gen_vars, validation_vars,
                   strategy_service_vars, engine_init, driver_vars, bus_vars>>

BacktestServiceNext == RunBacktest \/ GetBacktestResult

BacktestServiceStart ==
    /\ BacktestServiceInit
    /\ EngineIdle /\ BacktestIdle /\ StrategyIdle /\ GeneratorIdle
    /\ ValidationIdle /\ StrategyServiceIdle /\ ConstructionIdle
    /\ DriverIdle /\ EventBusIdle

SpecBacktestService == BacktestServiceStart /\ [][BacktestServiceNext]_vars

----------------------------------------------------------------------------
(* Live engine: construction                                                *)

\* TradingEngine(config_path, mode) has loaded its configuration
ConstructionInit ==
    /\ engine_init \in [config : TradingConfigs, called : {FALSE},
                        exc : {""}, strategies : {<< >>}]

\* self.strategies = self._init_strategies()
InitStrategies ==
    /\ engine_init.config # << >>
    /\ ~engine_init.called
    /\ LET r == init_strategies(engine_init.config, 1, << >>)
       IN  engine_init' = [engine_init EXCEPT !.called = TRUE,
                                              !.exc = r.exc,
                                              !.strategies = r.strategies]
    /\ UNCHANGED <<engine_vars, bt_vars, strategy_vars, gen_vars,
                   validation_vars, strategy_service_vars,
                   backtest_service_vars, driver_vars, bus_vars>>

ConstructionStart ==
    /\ ConstructionInit
    /\ EngineIdle /\ BacktestIdle /\ StrategyIdle /\ GeneratorIdle
    /\ ValidationIdle /\ StrategyServiceIdle /\ BacktestServiceIdle
    /\ DriverIdle /\ EventBusIdle

----------------------------------------------------------------------------
(* Strategy types: validation, the two services and the construction of    *)
(* the engine                                                               *)

TypesStart ==
    \/ ValidationStart
    \/ StrategyServiceStart
    \/ BacktestServiceStart
    \/ ConstructionStart

TypesNext ==
    \/ ValidateStrategyParameters
    \/ CreateStrategy
    \/ RunBacktest
    \/ GetBacktestResult
    \/ InitStrategies

SpecTypes == TypesStart /\ [][TypesNext]_vars

----------------------------------------------------------------------------
(* Live engine: run_continuously as a state machine                         *)

\* run_continuously(interval) is called on an engine with one symbol
DriverInit ==
    /\ EngineInit
    /\ Len(strategies) = 1
    /\ dr_pc = "pass"
    /\ dr_last = "none"
    /\ dr_sleeps = 0

\* success = self.run_once(): the pass returns
PassReturns ==
    /\ dr_pc = "pass"
    /\ \E inp \in [StrategyKeys -> CycleInputs] :
        /\ \A s \in StrategyKeys : Consulted(inp[s])
        /\ \E r \in {run_once(inp)} :
            /\ Complete("run_once", r)
            /\ dr_last' = r.ret
            /\ dr_pc' = after_pass(r.ret)
    /\ dr_sleeps' = 0

\* self.run_once() raises an Exception
PassRaises ==
    /\ dr_pc = "pass"
    /\ dr_last' = "raised"
    /\ dr_pc' = after_pass("raised")
    /\ dr_sleeps' = 0
    /\ UNCHANGED engine_vars
    /\ EngineRest

\* time.sleep(interval) of the try block returns
Sleep ==
    /\ dr_pc = "sleep"
    /\ dr_pc' = "pass"
    /\ dr_sleeps' = dr_sleeps + 1
    /\ UNCHANGED <<dr_last, engine_vars>>
    /\ EngineRest

\* the handler of Exception sends its system alert
Alert ==
    /\ dr_pc = "alert"
    /\ dr_pc' = "alert_sleep"
    /\ events' = <<send_system_alert("", "continuous run error")>>
    /\ UNCHANGED <<dr_last, dr_sleeps, mode, strategies, last_signals,
                   positions, signals, result>>
    /\ EngineRest

\* time.sleep(interval) of the handler returns
HandlerSleep ==
    /\ dr_pc = "alert_sleep"
    /\ dr_pc' = "pass"
    /\ dr_sleeps' = dr_sleeps + 1
    /\ UNCHANGED <<dr_last, engine_vars>>
    /\ EngineRest

\* KeyboardInterrupt arrives in the try block: the loop breaks
KeyboardInterruptInTry ==
    /\ dr_pc \in {"pass", "sleep"}
    /\ dr_pc' = "stopped"
    /\ UNCHANGED <<dr_last, dr_sleeps, engine_vars>>
    /\ EngineRest

\* KeyboardInterrupt arrives in the handler of Exception: it leaves
\* run_continuously
KeyboardInterruptInHandler ==
    /\ dr_pc \in {"alert", "alert_sleep"}
    /\ dr_pc' = "interrupted"
    /\ UNCHANGED <<dr_last, dr_sleeps, engine_vars>>
    /\ EngineRest

DriverNext ==
    \/ PassReturns
    \/ PassRaises
    \/ Sleep
    \/ Alert
    \/ HandlerSleep
    \/ KeyboardInterruptInTry
    \/ KeyboardInterruptInHandler

DriverStart ==
    /\ DriverInit
    /\ BacktestIdle /\ StrategyIdle /\ GeneratorIdle /\ ValidationIdle
    /\ StrategyServiceIdle /\ BacktestServiceIdle /\ ConstructionIdle
    /\ EventBusIdle

SpecDriver == DriverStart /\ [][DriverNext]_vars

\* the driver is one thread: its next statement is eventually executed, a
\* call of run_once returns or raises and a sleep ends; nothing makes a
\* KeyboardInterrupt arrive
SpecDriverFair ==
    /\ SpecDriver
    /\ WF_vars(PassReturns \/ PassRaises)
    /\ WF_vars(Sleep)
    /\ WF_vars(Alert)
    /\ WF_vars(HandlerSleep)

----------------------------------------------------------------------------
(* MemoryEventBus: state machine                                           *)

\* MemoryEventBus.__init__
EventBusInit ==
    /\ handlers = [t \in EventTypes |-> NoKey]
    /\ deliveries = << >>
    /\ bus_result = [op |-> "init"]

EventBusRest ==
    UNCHANGED <<engine_vars, bt_vars, strategy_vars, gen_vars, validation_vars,
                strategy_service_vars, backtest_service_vars, engine_init,
                driver_vars>>

\* a call of publish(event); the handlers that raise are the environment's
\* choice among the handlers of the event's type
Publish ==
    /\ bus_result.op # "none"
    /\ \E event_type \in EventTypes :
       \E raising \in SUBSET Elements(handlers_get(handlers, event_type)) :
       \E r \in {publish(handlers, event_type, raising)} :
          /\ deliveries' = r.log
          /\ bus_result' = [op |-> "publish", event_type |-> event_type,
                            handler |-> 0, exc |-> r.exc]
    /\ UNCHANGED handlers
    /\ EventBusRest

\* a call of subscribe(event_type, handler)
Subscribe ==
    /\ bus_result.op # "none"
    /\ \E event_type \in EventTypes, handler \in Handlers :
          /\ handlers' = subscribe(handlers, event_type, handler)
          /\ bus_result' = [op |-> "subscribe", event_type |-> event_type,
                            handler |-> handler, exc |-> FALSE]
    /\ deliveries' = << >>
    /\ EventBusRest

\* a call of unsubscribe(event_type, handler)
Unsubscribe ==
    /\ bus_result.op # "none"
    /\ \E event_type \in EventTypes, handler \in Handlers :
          /\ handlers' = unsubscribe(handlers, event_type, handler)
          /\ bus_result' = [op |-> "unsubscribe", event_type |-> event_type,
                            handler |-> handler, exc |-> FALSE]
    /\ deliveries' = << >>
    /\ EventBusRest

EventBusNext == Publish \/ Subscribe \/ Unsubscribe

EventBusStart ==
    /\ EventBusInit
    /\ EngineIdle /\ BacktestIdle /\ StrategyIdle /\ GeneratorIdle
    /\ ValidationIdle /\ StrategyServiceIdle /\ BacktestServiceIdle
    /\ ConstructionIdle /\ DriverIdle

SpecEventBus == EventBusStart /\ [][EventBusNext]_vars

\* the engine's evaluations and the strategies' own
EvaluationStart == EngineStart \/ StrategyStart

EvaluationNext == EngineNext \/ StrategyNext

SpecEvaluation == EvaluationStart /\ [][EvaluationNext]_vars

----------------------------------------------------------------------------
(* Live engine: properties                                                 *)

\* the positions in the event list evs of the calls of the given kinds made
\* for symbol s
Calls(evs, s, kinds) ==
    {i \in 1..Len(evs) : evs[i].symbol = s /\ evs[i].kind \in kinds}

TradeCalls == {"trade_notification", "place_order"}

NotifierCalls == {"trade_notification", "system_alert"}

\* C1: in every cycle and for every symbol, a trade notification or an order
\* is issued only if the cycle's signal for the symbol differs structurally
\* from last_signals[symbol]; when it is equal, the notifier is not called,
\* no order is placed, and last_signals and positions keep their values.
C1_ActOnlyOnNewSignal ==
    [][\A s \in AllSymbols :
          /\ Calls(events', s, TradeCalls) # {}
                => (signals'[s] # None /\ signals'[s] # last_signals[s])
          /\ (signals'[s] # None /\ signals'[s] = last_signals[s])
                => /\ Calls(events', s, TradeCalls \cup NotifierCalls) = {}
                   /\ last_signals'[s] = last_signals[s]
                   /\ positions'[s] = positions[s]
          /\ signals'[s] = None
                => /\ Calls(events', s, TradeCalls \cup NotifierCalls) = {}
                   /\ last_signals'[s] = last_signals[s]
                   /\ positions'[s] = positions[s]]_vars

\* C1 witness: a cycle evaluated a buy signal equal to the last one and
\* logged "no new signal" for it, with an earlier position still in place
C1_Witness ==
    \E s \in AllSymbols :
        /\ signals[s] # None
        /\ signals[s].action = "buy"
        /\ signals[s] = last_signals[s]
        /\ positions[s] # NoPosition
        /\ \E i \in 1..Len(events) :
               events[i] = [kind |-> "no_new_signal", symbol |-> s]

\* C2: after a cycle whose signal for a symbol differed from
\* last_signals[symbol], last_signals[symbol] is that signal, whatever the
\* mode and whether or not the notification was delivered or the order placed.
C2_LastSignalAlwaysUpdated ==
    [][\A s \in AllSymbols :
          (signals'[s] # None /\ signals'[s] # last_signals[s])
              => last_signals'[s] = signals'[s]]_vars

\* C2 witness: a cycle in auto mode whose notification was not delivered and
\* whose place_order raised: it reports False and the signal is recorded
C2_Witness ==
    \E s \in AllSymbols :
        /\ result.ret = "False"
        /\ \E i \in Calls(events, s, {"trade_notification"}) : ~events[i].delivered
        /\ \E i \in Calls(events, s, {"place_order"}) : ~events[i].ok
        /\ signals[s].action \in {"buy", "sell"}
        /\ last_signals[s] = signals[s]

\* C3: whenever the evaluated signal's action is hold, no trade notification
\* is sent, no order is placed and positions[symbol] is not modified, in every
\* mode and whatever last_signals[symbol] was.
C3_HoldNeverActs ==
    [][\A s \in AllSymbols :
          (signals'[s] # None /\ signals'[s].action = "hold")
              => /\ Calls(events', s, TradeCalls) = {}
                 /\ positions'[s] = positions[s]]_vars

\* C3 witness: a hold signal that differs from the previous signal (a buy)
\* was taken as a new signal while a position is held
C3_Witness ==
    \E s \in AllSymbols :
        /\ signals[s] # None
        /\ signals[s].action = "hold"
        /\ positions[s] # NoPosition
        /\ \E i \in 1..Len(events) :
               events[i] = [kind |-> "new_signal", symbol |-> s]

\* the last cycle was a multi-symbol pass (run_once_for_all_symbols)
MultiSymbolPass == result.call = "run_once" /\ Len(strategies) > 1

\* C4: a multi-symbol pass never raises, and whatever failed for one symbol,
\* every symbol with a strategy has had its market data fetched once, has
\* been evaluated and has been dispatched (its signal compared with the last
\* one and recorded as the last signal).
C4_PassCoversEverySymbol ==
    MultiSymbolPass =>
        /\ result.ret \in {"True", "False"}
        /\ \A s \in StrategyKeys :
              /\ Cardinality(Calls(events, s, {"get_klines"})) = 1
              /\ signals[s] # None
              /\ Cardinality(Calls(events, s, {"new_signal", "no_new_signal"})) = 1
              /\ last_signals[s] = signals[s]

\* C4 witness: in one pass the first symbol's order raised and the second
\* symbol's order was placed
C4_Witness ==
    /\ MultiSymbolPass
    /\ result.ret = "False"
    /\ \E i \in Calls(events, strategies[1], {"place_order"}) : ~events[i].ok
    /\ \E i \in Calls(events, strategies[2], {"place_order"}) : events[i].ok
    /\ positions[strategies[2]] # NoPosition

\* the symbols for which the cycle found a new signal that is not a hold
Tradable(s) ==
    /\ signals'[s] # None
    /\ signals'[s] # last_signals[s]
    /\ signals'[s].action # "hold"

\* C16: in monitor mode a cycle places no order and modifies no position;
\* for every new signal that is not a hold it sends the trade notification,
\* once, and _execute_trade returns True, so the cycle reports success.
C16_MonitorNeverTrades ==
    [][mode = "monitor" =>
          /\ \A i \in 1..Len(events') : events'[i].kind # "place_order"
          /\ positions' = positions
          /\ \A s \in AllSymbols :
                 Tradable(s) =>
                     /\ Cardinality(Calls(events', s, {"trade_notification"})) = 1
                     /\ \A i \in Calls(events', s, {"trade_notification"}) :
                            /\ events'[i].price = signals'[s].price
                            /\ events'[i].reason = signals'[s].reason
          /\ result'.ret = "True"]_vars

\* C16 witness: in monitor mode a cycle notified a new buy signal and
\* reported success while no position is held
C16_Witness ==
    \E s \in AllSymbols :
        /\ mode = "monitor"
        /\ result.ret = "True"
        /\ signals[s] # None
        /\ signals[s].action = "buy"
        /\ Calls(events, s, {"trade_notification"}) # {}
        /\ \E i \in 1..Len(events) :
               events[i] = [kind |-> "new_signal", symbol |-> s]
        /\ positions = [x \in AllSymbols |-> NoPosition]

\* the position size each symbol's configuration gives, in units of 0.001
ConfiguredSize == ("BNBUSDT" :> 100) @@ ("BTCUSDT" :> 1)

OwnSizeIgnored ==
    \E s \in AllSymbols :
        /\ mode = "auto"
        /\ signals[s] # None
        /\ "position_size" \in DOMAIN signals[s]
        /\ positions[s] # NoPosition
        /\ positions[s].size = ConfiguredSize[s]
        /\ positions[s].size # signals[s].position_size

----------------------------------------------------------------------------
(* Live engine: properties of run_continuously                              *)

\* run_continuously has returned (break) or has been left by an exception
Terminated == dr_pc \in {"stopped", "interrupted"}

\* a pass has been made and the next one has not begun
AfterPass == dr_pc \in {"sleep", "alert", "alert_sleep"}

\* C18: run_continuously ends only when a KeyboardInterrupt arrives; every
\* pass, whether it returned True or False or raised an Exception, is
\* followed by a sleep, and a pass begins after exactly one sleep since the
\* pass before; unless a KeyboardInterrupt arrives, after every pass the
\* next one is eventually started, and a pass that is started ends.
C18_DriverKeepsRunning ==
    /\ [][/\ Terminated' =>
                  (KeyboardInterruptInTry \/ KeyboardInterruptInHandler)
          /\ (dr_pc = "pass" /\ ~Terminated') =>
                  /\ AfterPass'
                  /\ dr_last = "none" \/ dr_sleeps = 1
                  /\ dr_last' \in {"True", "False"} <=> dr_pc' = "sleep"
          /\ (AfterPass /\ dr_pc' = "pass") => dr_sleeps' = 1]_vars
    /\ AfterPass ~> (dr_pc = "pass" \/ Terminated)
    /\ (dr_pc = "pass") ~> (AfterPass \/ Terminated)

\* a pass that returned False has been followed by one sleep and the next
\* pass is about to begin
C18_Witness ==
    /\ dr_pc = "pass"
    /\ dr_last = "False"
    /\ dr_sleeps = 1

\* a pass that raised has been followed by the alert and one sleep and the
\* next pass is about to begin
RestartAfterException ==
    /\ dr_pc = "pass"
    /\ dr_last = "raised"
    /\ dr_sleeps = 1
    /\ events = <<send_system_alert("", "continuous run error")>>

----------------------------------------------------------------------------
(* Backtest simulator: properties                                          *)

Done == bt_pc = "done"

Long(pos) == RLt(Zero, pos)

\* C7: the recorded trades alternate BUY, SELL, BUY, ... starting with a
\* BUY: never two BUYs in a row, never a SELL without an open BUY before it.
C7_TradesAlternate ==
    /\ \A k \in 1..Len(trades) :
           trades[k].type = IF k % 2 = 1 THEN "BUY" ELSE "SELL"
    /\ Done => report.trades = trades

\* C7 witness: a finished run with a buy signal on every candle, of which
\* the one that came while LONG was ignored: the log is BUY, SELL, BUY
C7_Witness ==
    /\ Done
    /\ Len(bt_input.df) = 4
    /\ \A i \in 1..4 : bt_input.df[i].signal_buy
    /\ Len(report.trades) = 3
    /\ report.trades[3].type = "BUY"

\* the number of candles at which the simulator went from FLAT to LONG or
\* from LONG to FLAT
Transitions ==
    Cardinality({i \in 1..Len(ledger) :
        Long(ledger[i].position) # (i > 1 /\ Long(ledger[i - 1].position))})

\* C8: final_balance is the cash after the last candle plus the open
\* position times the last close, total_return is final_balance minus
\* initial_balance, and valuing an open position appends no trade.
C8_Conservation ==
    Done =>
        LET last_close == R(bt_input.df[Len(bt_input.df)].close)
        IN  /\ report.final_balance = RAdd(balance, RMul(position, last_close))
            /\ report.total_return =
                   RSub(report.final_balance, bt_input.initial_balance)
            /\ report.trades = trades
            /\ Len(report.trades) = Transitions
            /\ Long(position) => report.trades[Len(report.trades)].type = "BUY"

\* C8 witness: a run that ends LONG after BUY, SELL, BUY, the last close
\* differing from the entry price
C8_Witness ==
    /\ Done
    /\ Long(position)
    /\ Len(report.trades) = 3
    /\ R(bt_input.df[Len(bt_input.df)].close) # entry_price
    /\ report.final_balance # report.trades[3].position_value

\* the factor of the round trips 1..k of a trade log: the product of
\* 0.99 * (p2 / p1) * (1 - fee_rate) over them
RECURSIVE RoundTripFactor(_, _, _)
RoundTripFactor(trs, k, fee_rate) ==
    IF k = 0 THEN R(1)
    ELSE RMul(RoundTripFactor(trs, k - 1, fee_rate),
              RMul(RMul(<<99, 100>>, RDiv(trs[2 * k].price, trs[2 * k - 1].price)),
                   RSub(R(1), fee_rate)))

\* C9: a run that ends FLAT after k complete round trips has final_balance =
\* initial_balance times the product over the trips of
\* 0.99 * (p2 / p1) * (1 - fee_rate), and total_return_pct = (product - 1) * 100.
C9_RoundTripReturn ==
    (Done /\ ~Long(position)) =>
        LET k == Len(report.trades) \div 2
            f == RoundTripFactor(report.trades, k, bt_input.fee_rate)
        IN  /\ Len(report.trades) = 2 * k
            /\ report.final_balance = RMul(bt_input.initial_balance, f)
            /\ report.total_return_pct = RMul(RSub(f, R(1)), R(100))

\* C9 witness: two complete round trips with a fee, the first one sold at
\* another price than it was bought at
C9_Witness ==
    /\ Done
    /\ ~Long(position)
    /\ Len(report.trades) = 4
    /\ bt_input.fee_rate # Zero
    /\ report.trades[1].price # report.trades[2].price

\* C10: for every candle i, portfolio_values[i].value is the cash held
\* after candle i if the simulator is FLAT at that candle, and cash plus
\* position times close[i] if it is LONG at that candle.
C10_EquityCurve ==
    Done =>
        /\ Len(report.portfolio_values) = Len(bt_input.df)
        /\ \A i \in 1..Len(bt_input.df) :
               report.portfolio_values[i].value =
                   IF Long(ledger[i].position)
                   THEN RAdd(ledger[i].balance,
                             RMul(ledger[i].position, R(bt_input.df[i].close)))
                   ELSE ledger[i].balance

\* the running peak of a value series at row i
Peak(pvs, i) ==
    CHOOSE v \in {pvs[j].value : j \in 1..i} :
        \A j \in 1..i : ~RLt(v, pvs[j].value)

\* the percentage decline of row i from the running peak
Decline(pvs, i) ==
    RMul(RDiv(RSub(Peak(pvs, i), pvs[i].value), Peak(pvs, i)), R(100))

NonDecreasing(pvs) ==
    \A i \in 1..(Len(pvs) - 1) : ~RLt(pvs[i + 1].value, pvs[i].value)

\* C11: max_drawdown lies between 0 and 100, is the largest percentage
\* decline of the reported portfolio values from their running peak, and is
\* 0 when the series never decreases.
C11_MaxDrawdown ==
    Done =>
        LET pvs == report.portfolio_values
            dd == report.max_drawdown
        IN  /\ ~RLt(dd, Zero)
            /\ ~RLt(R(100), dd)
            /\ \E i \in 1..Len(pvs) : dd = Decline(pvs, i)
            /\ \A i \in 1..Len(pvs) : ~RLt(dd, Decline(pvs, i))
            /\ NonDecreasing(pvs) => dd = Zero

\* C11 witness: a reported series that rose above its first value and then
\* fell: the drawdown is positive and measured from the later peak
C11_Witness ==
    /\ Done
    /\ RLt(Zero, report.max_drawdown)
    /\ LET pvs == report.portfolio_values
       IN  /\ RLt(pvs[1].value, Peak(pvs, Len(pvs)))
           /\ RLt(pvs[Len(pvs)].value, Peak(pvs, Len(pvs)))

\* the loop has just read a row
RowRead == Len(bt_input'.df) = Len(bt_input.df) + 1

\* C19: a row with signal_buy and no signal_sell read while a position is
\* open, and a row with signal_sell and no signal_buy read while no
\* position is open, leave balance, position, entry price and trade log as
\* they were; in every state of the loop an open position goes with a cash
\* balance of 0.
C19_InvalidTransitionsNoOps ==
    /\ [](Long(position) => balance = Zero)
    /\ [][RowRead =>
              LET row == bt_input'.df[Len(bt_input'.df)]
              IN  /\ (row.signal_buy /\ ~row.signal_sell /\ Long(position))
                     => UNCHANGED <<balance, position, entry_price, trades>>
                  /\ (row.signal_sell /\ ~row.signal_buy /\ ~Long(position))
                     => UNCHANGED <<balance, position, entry_price, trades>>]_vars

\* a buy signal was read while the position of an earlier buy was open, and
\* the trade log still holds that one trade
C19_Witness ==
    /\ Len(bt_input.df) >= 2
    /\ LET row == bt_input.df[Len(bt_input.df)]
       IN  row.signal_buy /\ ~row.signal_sell
    /\ Len(ledger) >= 2
    /\ Long(ledger[Len(ledger) - 1].position)
    /\ Long(position)
    /\ Len(trades) = 1

\* a sell signal was read while no position was open
SellWhileFlat ==
    /\ Len(bt_input.df) >= 1
    /\ LET row == bt_input.df[Len(bt_input.df)]
       IN  row.signal_sell /\ ~row.signal_buy
    /\ ~Long(position)
    /\ trades = << >>
    /\ balance = bt_input.initial_balance

\* C20: on a transition from FLAT to LONG with cash b > 0 at close c the
\* position becomes 0.99 b / c, the balance 0 and the entry price c, one BUY
\* trade is recorded with quantity 0.99 b / c and fee 0.99 b fee_rate, and
\* the fee is debited: the account is worth the amount spent less the fee
\* after the trade.
C20_BuyDebitsFee ==
    [][(RowRead /\ ~Long(position) /\ Long(position')) =>
          LET b == balance
              c == R(bt_input'.df[Len(bt_input'.df)].close)
              spent == RMul(<<99, 100>>, b)
              fee == RMul(spent, bt_input.fee_rate)
          IN  /\ RLt(Zero, b)
              /\ position' = RDiv(spent, c)
              /\ balance' = Zero
              /\ entry_price' = c
              /\ Len(trades') = Len(trades) + 1
              /\ trades'[Len(trades')].type = "BUY"
              /\ trades'[Len(trades')].quantity = RDiv(spent, c)
              /\ trades'[Len(trades')].fee = fee
              /\ RAdd(balance', RMul(position', c)) = RSub(spent, fee)]_vars


\* the loop has just read a row and gone from LONG to FLAT
SoldOut == RowRead /\ Long(position) /\ ~Long(position')

\* what a sale of the whole position q at close x leaves behind, but for
\* profit_loss_pct: balance q x (1 - fee_rate), position 0, one SELL trade
\* of quantity q at price x with fee q x fee_rate and
\* profit_loss (x - entry) q - fee
SoldWholePosition ==
    LET q == position
        x == R(bt_input'.df[Len(bt_input'.df)].close)
        fee == RMul(RMul(q, x), bt_input.fee_rate)
        trade == trades'[Len(trades')]
    IN  /\ balance' = RMul(RMul(q, x), RSub(R(1), bt_input.fee_rate))
        /\ position' = Zero
        /\ Len(trades') = Len(trades) + 1
        /\ trade.type = "SELL"
        /\ trade.price = x
        /\ trade.quantity = q
        /\ trade.fee = fee
        /\ trade.balance = balance'
        /\ trade.profit_loss = RSub(RMul(RSub(x, entry_price), q), fee)

\* C21 as stated: on a transition from LONG to FLAT the whole position q is
\* sold at close x, the balance becomes q x (1 - fee_rate), the position 0,
\* and the recorded SELL trade has fee q x fee_rate, profit_loss
\* (x - entry) q - fee and profit_loss_pct x / entry - 1.
C21_SellFraction ==
    [][SoldOut =>
          /\ SoldWholePosition
          /\ trades'[Len(trades')].profit_loss_pct =
                 RSub(RDiv(R(bt_input'.df[Len(bt_input'.df)].close),
                           entry_price), R(1))]_vars

\* C21: on a transition from LONG to FLAT the whole position q is sold at
\* close x, the balance becomes q x (1 - fee_rate), the position 0, and the
\* recorded SELL trade has fee q x fee_rate, profit_loss (x - entry) q - fee
\* and profit_loss_pct (x / entry - 1) x 100, a percentage.
C21_SellPercent ==
    [][SoldOut =>
          /\ SoldWholePosition
          /\ trades'[Len(trades')].profit_loss_pct =
                 RMul(RSub(RDiv(R(bt_input'.df[Len(bt_input'.df)].close),
                                entry_price), R(1)), R(100))]_vars

\* a position bought at 1 was sold at 2 with a fee rate of 1/10: the SELL
\* trade records a gain of 100 percent
C21_Witness ==
    /\ Len(trades) = 2
    /\ trades[1].price = R(1)
    /\ trades[2].type = "SELL"
    /\ trades[2].price = R(2)
    /\ bt_input.fee_rate = <<1, 10>>
    /\ trades[2].profit_loss_pct = R(100)
    /\ ~Long(position)
    /\ balance = trades[2].balance


\* C28: the report of a run over a series that is not empty has one
\* portfolio value per candle, dated in candle order, and the last value is
\* final_balance (the cash plus the open position at the last close),
\* whether the run ends FLAT or LONG and whatever trades it made.
C28_CurveEndsAtFinalBalance ==
    Done =>
        LET pvs == report.portfolio_values
            n == Len(bt_input.df)
        IN  /\ n > 0
            /\ Len(pvs) = n
            /\ \A i \in 1..n : pvs[i].date = open_time(i)
            /\ pvs[n].value = report.final_balance
            /\ report.final_balance =
                   RAdd(ledger[n].balance,
                        RMul(ledger[n].position, R(bt_input.df[n].close)))

\* a run that ends FLAT after two round trips, with two candles per day, a
\* fee and a final balance other than the initial one
C28_Witness ==
    /\ Done
    /\ ~Long(position)
    /\ Len(report.trades) = 4
    /\ bt_input.candles_per_day = 2
    /\ bt_input.fee_rate # Zero
    /\ report.final_balance # bt_input.initial_balance
    /\ report.portfolio_values[Len(bt_input.df)].value = balance

\* a run that ends LONG, the last close differing from the entry price
EndsLong ==
    /\ Done
    /\ Long(position)
    /\ R(bt_input.df[Len(bt_input.df)].close) # entry_price
    /\ report.portfolio_values[Len(bt_input.df)].value =
           RMul(position, R(bt_input.df[Len(bt_input.df)].close))

----------------------------------------------------------------------------
(* Backtest signal generators: properties                                  *)

\* lower_price + i * (upper_price - lower_price) / grid_num, i = 0..grid_num
Levels(params) ==
    { RAdd(R(params.lower_price),
           RDiv(RMul(R(i), RSub(R(params.upper_price), R(params.lower_price))),
                R(params.grid_num))) : i \in 0..params.grid_num }

GridFrame == gen_strategy.type = "GRID" /\ gen_frame # << >>

\* C12: the grid generator sets signal_buy on candle t >= 1 exactly when a
\* level L has close[t-1] < L <= close[t], and signal_sell exactly when a
\* level L has close[t-1] > L >= close[t]; the first candle carries no
\* signal and no candle carries both.
C12_GridSignals ==
    GridFrame =>
        /\ Len(gen_frame) = Len(gen_closes)
        /\ \A t \in 1..Len(gen_frame) :
              LET row == gen_frame[t]
                  c == R(gen_closes[t])
                  p == R(gen_closes[IF t > 1 THEN t - 1 ELSE t])
              IN  /\ row.close = gen_closes[t]
                  /\ row.signal_buy <=>
                        (t > 1 /\ \E L \in Levels(gen_strategy) :
                                     RLt(p, L) /\ ~RLt(c, L))
                  /\ row.signal_sell <=>
                        (t > 1 /\ \E L \in Levels(gen_strategy) :
                                     RLt(L, p) /\ ~RLt(L, c))
                  /\ ~(row.signal_buy /\ row.signal_sell)
                  /\ t = 1 => (~row.signal_buy /\ ~row.signal_sell)

\* C12 witness: a grid frame with a buy on a candle that closed exactly on a
\* level, a sell on a later candle and a candle without a crossing
C12_Witness ==
    /\ GridFrame
    /\ \E t, u, v \in 2..Len(gen_frame) :
          /\ t < u
          /\ gen_frame[t].signal_buy
          /\ R(gen_closes[t]) \in Levels(gen_strategy)
          /\ gen_frame[u].signal_sell
          /\ ~gen_frame[v].signal_buy /\ ~gen_frame[v].signal_sell

----------------------------------------------------------------------------
(* Strategy service: what validation accepts                                *)

SupportedTypes == {"MACD", "RSI", "GRID"}

Required(type) ==
    IF type = "MACD" THEN {"fast_period", "slow_period", "signal_period", "timeframe"}
    ELSE IF type = "RSI" THEN {"period", "overbought", "oversold", "timeframe"}
    ELSE {"upper_price", "lower_price", "grid_num", "quantity"}

\* the range a single field has to lie in
InRange(type, field, x) ==
    IF field = "timeframe" THEN x.t = "str" /\ x.s \in valid_timeframes
    ELSE IF field = "overbought" THEN IsNumber(x) /\ x.v > 0 /\ x.v <= 100
    ELSE IF field \in {"oversold", "upper_price", "lower_price", "quantity"}
    THEN IsNumber(x) /\ x.v > 0
    ELSE IsInt(x) /\ x.v > 0

\* the pair of fields a type orders: the first has to be below the second
Ordered(type) ==
    IF type = "MACD" THEN <<"fast_period", "slow_period">>
    ELSE IF type = "RSI" THEN <<"oversold", "overbought">>
    ELSE <<"lower_price", "upper_price">>

\* both fields of the ordered pair are numbers, and the first is not below
\* the second
OutOfOrder(type, parameters) ==
    LET low == Ordered(type)[1]
        high == Ordered(type)[2]
    IN  /\ Has(parameters, low) /\ IsNumber(parameters[low])
        /\ Has(parameters, high) /\ IsNumber(parameters[high])
        /\ parameters[low].v >= parameters[high].v

\* the fields that break a constraint
Offending(type, parameters) ==
    {field \in Required(type) :
        \/ ~Has(parameters, field)
        \/ ~InRange(type, field, parameters[field])
        \/ OutOfOrder(type, parameters) /\ field \in {Ordered(type)[1], Ordered(type)[2]}}

\* the messages of the service that name a field
MessagesNaming(field) ==
    {"Missing required parameter: " \o field,
     field \o " must be a positive integer",
     field \o " must be a positive number",
     field \o " must be a number between 0 and 100",
     field \o " must be a number between 0 and overbought"}
    \cup (IF field \in {"fast_period", "slow_period"}
          THEN {"fast_period must be less than slow_period"} ELSE {})
    \cup (IF field = "overbought"
          THEN {"oversold must be a number between 0 and overbought"} ELSE {})
    \cup (IF field \in {"upper_price", "lower_price"}
          THEN {"upper_price must be greater than lower_price"} ELSE {})
    \cup (IF field = "timeframe"
          THEN {"Invalid timeframe: " \o text : text \in {"", "1h", "2y"}} ELSE {})

ValidationCalled == v_result # NotCalled

\* C13: for a supported type validate_strategy_parameters either raises
\* StrategyValidationError or returns True; it raises, with a message that
\* names a field breaking a constraint, whenever a required key is missing,
\* a field is out of its range, or MACD fast_period >= slow_period, RSI
\* oversold >= overbought, GRID lower_price >= upper_price; it returns True
\* only when no field breaks a constraint.
C13_ValidationRejects ==
    (ValidationCalled /\ v_type \in SupportedTypes) =>
        LET offending == Offending(v_type, v_parameters) IN
        /\ v_result \in {ReturnedTrue} \cup
               {Raised(msg) : msg \in UNION {MessagesNaming(f) : f \in Required(v_type)}}
        /\ (\/ OutOfOrder(v_type, v_parameters)
            \/ \E field \in Required(v_type) : ~Has(v_parameters, field)
            \/ offending # {})
           => /\ v_result.exc = StrategyValidationError
              /\ \E field \in offending : v_result.msg \in MessagesNaming(field)
        /\ v_result.ret => offending = {}

\* RSI parameters that are each in range, with oversold = overbought, were
\* rejected
C13_Witness ==
    /\ ValidationCalled
    /\ v_result.exc = StrategyValidationError
    /\ v_type = "RSI"
    /\ \A field \in Required("RSI") :
          Has(v_parameters, field) /\ InRange("RSI", field, v_parameters[field])
    /\ v_parameters.oversold.v = v_parameters.overbought.v

----------------------------------------------------------------------------
(* Strategy types: properties                                               *)

Created == cs_result.op = "create_strategy"

Backtested == rb_result.op = "run_backtest"

\* a call with a type outside MACD, RSI, GRID has been made
UnsupportedValidated == ValidationCalled /\ v_type \notin SupportedTypes

UnsupportedCreated == Created /\ cs_result.type \notin SupportedTypes

UnsupportedBacktested == Backtested /\ rb_result.type \notin SupportedTypes

\* the engine has been initialised with a strategy name that no module of
\* the strategies package bears
Unresolved ==
    /\ engine_init.called
    /\ \E i \in DOMAIN engine_init.config :
           engine_init.config[i].strategy \notin StrategyModules

\* the call has left the repository, the event bus and the stored results
\* as they were
Untouched ==
    /\ UnsupportedCreated' => UNCHANGED <<repository, event_bus>>
    /\ UnsupportedBacktested' => UNCHANGED backtest_results

\* C14 as stated: every call with an unsupported type raises
\* StrategyValidationError, whatever its other arguments, and saves,
\* publishes and stores nothing; engine initialisation raises on a strategy
\* name that cannot be resolved.
C14_AlwaysValidationError ==
    [][/\ UnsupportedValidated' => v_result'.exc = StrategyValidationError
       /\ UnsupportedCreated' => cs_result'.exc = StrategyValidationError
       /\ UnsupportedBacktested' => rb_result'.exc = StrategyValidationError
       /\ Untouched
       /\ Unresolved' => engine_init'.exc # ""]_vars

\* C14, amended: every call with an unsupported type raises and saves,
\* publishes and stores nothing, and no default takes the place of the
\* type; the exception is StrategyValidationError unless an earlier step of
\* the call has failed: create_strategy raises SymbolNotFoundError for an
\* unknown symbol, run_backtest raises the exception of the fetch of the
\* history.  Engine initialisation raises on a strategy name that cannot be
\* resolved and returns no strategies.
C14_UnsupportedTypeRejected ==
    [][/\ UnsupportedValidated' =>
              /\ v_result'.exc = StrategyValidationError
              /\ ~v_result'.ret
       /\ UnsupportedCreated' =>
              /\ cs_result'.exc =
                     IF cs_result'.symbol_id \in KnownSymbolIds
                     THEN StrategyValidationError ELSE "SymbolNotFoundError"
              /\ cs_result'.ret = NoStrategy
       /\ UnsupportedBacktested' =>
              /\ rb_result'.exc =
                     IF rb_result'.fetch = ""
                     THEN StrategyValidationError ELSE rb_result'.fetch
              /\ rb_result'.ret = NoReport
       /\ Untouched
       /\ \A i \in DOMAIN repository' :
              repository'[i].type \in SupportedTypes
       /\ Unresolved' =>
              /\ engine_init'.exc # ""
              /\ engine_init'.strategies = << >>]_vars

\* create_strategy with an unsupported type and a known symbol raised
\* StrategyValidationError on a repository that held a strategy
C14_Witness ==
    /\ UnsupportedCreated
    /\ cs_result.symbol_id \in KnownSymbolIds
    /\ cs_result.exc = StrategyValidationError
    /\ Len(repository) = 1
    /\ Len(event_bus) = 1

\* run_backtest with an unsupported type raised StrategyValidationError on a
\* service that held a result
UnsupportedBacktestRejected ==
    /\ UnsupportedBacktested
    /\ rb_result.exc = StrategyValidationError
    /\ Len(backtest_results) = 1

\* the engine's initialisation raised on a second symbol's strategy name
UnresolvedRaised ==
    /\ Unresolved
    /\ engine_init.exc = "ModuleNotFoundError"
    /\ engine_init.config[1].strategy \in StrategyModules

----------------------------------------------------------------------------
(* Backtest service: properties                                             *)

\* the exceptions a backtest raises: from the fetch, for the type, from the
\* signal generation and from the simulation
BacktestFaults ==
    {"BinanceAPIException", StrategyValidationError, "KeyError", "TypeError",
     "ZeroDivisionError", "IndexError"}

\* C15: a run_backtest that raises leaves the stored results as they were;
\* a run that returns has stored exactly one more result, that of the
\* completed simulation, under a fresh id, which is the backtest_id of what
\* it returns, and get_backtest_result of that id yields what it returned;
\* nothing else changes the stored results.
C15_FailedBacktestNoTrace ==
    [][/\ (Backtested' /\ rb_result'.exc # "") =>
              /\ rb_result'.exc \in BacktestFaults
              /\ rb_result'.ret = NoReport
              /\ backtest_results' = backtest_results
       /\ (Backtested' /\ rb_result'.exc = "") =>
              LET returned == rb_result'.ret
                  id == returned.backtest_id
              IN  /\ Len(backtest_results') = Len(backtest_results) + 1
                  /\ SubSeq(backtest_results', 1, Len(backtest_results))
                         = backtest_results
                  /\ id \in DOMAIN backtest_results' \ DOMAIN backtest_results
                  /\ returned.status = "ok"
                  /\ Len(returned.portfolio_values) = rb_result'.candles
                  /\ get_backtest_result(id, backtest_results')
                         = [exc |-> "", ret |-> returned]
       /\ backtest_results' # backtest_results =>
              Backtested' /\ rb_result'.exc = ""
       /\ rb_result'.op = "get_backtest_result" =>
              IF rb_result'.id \in DOMAIN backtest_results
              THEN /\ rb_result'.exc = ""
                   /\ rb_result'.ret = backtest_results[rb_result'.id]
              ELSE rb_result'.exc = "ValueError"]_vars

\* a backtest of an empty candle series raised from the simulation on a
\* service that held a result, and the result is still the only one
C15_Witness ==
    /\ Backtested
    /\ rb_result.exc = "IndexError"
    /\ rb_result.candles = 0
    /\ Len(backtest_results) = 1

\* a backtest raised from the fetch, from the signal generation with a
\* parameter missing, and one returned with a trade
FetchFailed == Backtested /\ rb_result.exc = "BinanceAPIException"

GenerationFailed == Backtested /\ rb_result.exc = "TypeError"

BacktestStored ==
    /\ Backtested
    /\ rb_result.exc = ""
    /\ Len(rb_result.ret.trades) > 0
    /\ rb_result.ret.backtest_id = 2

----------------------------------------------------------------------------
(* Evaluation: properties                                                  *)

\* every price text of the klines is a number
WellFormed(ks) ==
    \A i \in 1..Len(ks) :
        {ks[i].high, ks[i].low, ks[i].close} \subseteq DOMAIN ParsePrice

\* the reasons of a hold that reports no fault
RegularReasons ==
    {"", InsufficientData, "no clear signal", "no clear breakout"}

\* a hold signal that carries a diagnostic
DiagnosticHold(sig) ==
    /\ DOMAIN sig = {"action", "reason"}
    /\ sig.action = "hold"
    /\ sig.reason \notin RegularReasons

\* the last cycle's evaluation of symbol s met a fault: its fetch failed, no
\* strategy is registered for it, or its strategy's evaluate raised
EvaluationFault(s) ==
    \/ \E i \in Calls(events, s, {"get_klines", "evaluate"}) : ~events[i].ok
    \/ Calls(events, s, {"get_klines"}) # {} /\ s \notin StrategyKeys

\* C5: evaluation is fail-soft. No cycle ends with an exception escaping
\* from evaluate_strategy, and no strategy's evaluate raises; after a failed
\* fetch, a missing strategy or an exception in the indicator computation or
\* the signal generation the result is a hold with a diagnostic reason, and
\* no order is placed for the symbol in that cycle.
C5_EvaluationFailSoft ==
    /\ result.ret # "raised"
    /\ \A s \in AllSymbols :
          EvaluationFault(s)
              => /\ DiagnosticHold(signals[s])
                 /\ Calls(events, s, TradeCalls) = {}
    /\ st_signal # None
          => /\ st_signal.action \in {"hold", "buy", "sell"}
             /\ ~WellFormed(candles) => DiagnosticHold(st_signal)

\* C5 witness: a turtle strategy was handed enough klines, one of them with
\* a close that is no number, and answered hold
C5_Witness ==
    /\ strategy.kind = "turtle_trading"
    /\ Len(candles) >= turtle_required_length(strategy)
    /\ ~WellFormed(candles)
    /\ st_signal # None
    /\ st_signal.action = "hold"

\* max(relevant periods) + 1 of a strategy
RequiredCandles(st) ==
    IF st.kind = "turtle_trading"
    THEN LET m == IF st.entry_period > st.exit_period
                  THEN st.entry_period ELSE st.exit_period
         IN  (IF m > st.atr_period THEN m ELSE st.atr_period) + 1
    ELSE st.period + 1

\* C6: evaluate on fewer than max(relevant periods) + 1 candles returns hold
\* with the insufficient-data reason, never buy or sell.
C6_InsufficientDataHolds ==
    (/\ st_signal # None
     /\ WellFormed(candles)
     /\ Len(candles) < RequiredCandles(strategy))
        => st_signal = Hold(InsufficientData)

----------------------------------------------------------------------------
(* Strategies: properties                                                  *)

\* the number in column col of the i-th kline
Price(ks, i, col) == R(ParsePrice[ks[i][col]])

\* the mean of the w closes that end at kline i (i >= w)
RECURSIVE CloseSum(_, _, _)
CloseSum(ks, a, b) ==
    IF a > b THEN Zero ELSE RAdd(Price(ks, a, "close"), CloseSum(ks, a + 1, b))

MA(ks, i, w) == RDiv(CloseSum(ks, i - w + 1, i), R(w))

\* the true range of kline i (i >= 2): the largest of high - low,
\* |high - previous close| and |low - previous close|
TrueRange(ks, i) ==
    LET hl == RSub(Price(ks, i, "high"), Price(ks, i, "low"))
        hc == RSub(Price(ks, i, "high"), Price(ks, i - 1, "close"))
        lc == RSub(Price(ks, i, "low"), Price(ks, i - 1, "close"))
        abs(x) == IF RLt(x, Zero) THEN RSub(Zero, x) ELSE x
    IN  RMax(abs(hl), RMax(abs(hc), abs(lc)))

\* the mean of the w true ranges that end at kline i (i >= w + 1)
RECURSIVE TrueRangeSum(_, _, _)
TrueRangeSum(ks, a, b) ==
    IF a > b THEN Zero ELSE RAdd(TrueRange(ks, a), TrueRangeSum(ks, a + 1, b))

ATR(ks, i, w) == RDiv(TrueRangeSum(ks, i - w + 1, i), R(w))

\* close minus the close period klines earlier (i >= period + 1)
Momentum(ks, i, period) ==
    RSub(Price(ks, i, "close"), Price(ks, i - period, "close"))

\* the current and previous moving averages and the momentum are defined
TrendDefined(ks, period) == Len(ks) >= period + 1

\* the short MA (period // 2) is above the long MA at the latest kline, was
\* not above it one kline earlier, and the momentum is positive
TrendBuy(ks, period) ==
    /\ TrendDefined(ks, period)
    /\ RLt(MA(ks, Len(ks), period), MA(ks, Len(ks), period \div 2))
    /\ ~RLt(MA(ks, Len(ks) - 1, period), MA(ks, Len(ks) - 1, period \div 2))
    /\ RLt(Zero, Momentum(ks, Len(ks), period))

TrendSell(ks, period) ==
    /\ TrendDefined(ks, period)
    /\ RLt(MA(ks, Len(ks), period \div 2), MA(ks, Len(ks), period))
    /\ ~RLt(MA(ks, Len(ks) - 1, period \div 2), MA(ks, Len(ks) - 1, period))
    /\ RLt(Momentum(ks, Len(ks), period), Zero)

\* C22: TrendFollowing answers buy exactly when the short MA is above the
\* long MA now, was at or below it one candle earlier and momentum(period)
\* is positive, sell exactly in the mirrored case, and hold otherwise, also
\* whenever one of these values is undefined; the two conditions never hold
\* together; a buy carries stop_loss = price - multiplier ATR and
\* take_profit = price + multiplier ATR, a sell the mirrored levels.
C22_TrendFollowingRule ==
    (strategy.kind = "trend_following" /\ st_signal # None /\ WellFormed(candles))
        => LET n == Len(candles)
               is_buy == TrendBuy(candles, strategy.period)
               is_sell == TrendSell(candles, strategy.period)
               band == RMul(strategy.multiplier, ATR(candles, n, strategy.period))
           IN  /\ ~(is_buy /\ is_sell)
               /\ st_signal.action =
                      IF is_buy THEN "buy" ELSE IF is_sell THEN "sell" ELSE "hold"
               /\ st_signal.action = "buy"
                      => /\ st_signal.price = Price(candles, n, "close")
                         /\ st_signal.stop_loss = RSub(st_signal.price, band)
                         /\ st_signal.take_profit = RAdd(st_signal.price, band)
               /\ st_signal.action = "sell"
                      => /\ st_signal.price = Price(candles, n, "close")
                         /\ st_signal.stop_loss = RAdd(st_signal.price, band)
                         /\ st_signal.take_profit = RSub(st_signal.price, band)

\* a buy after the closes 1, 1, 2 with period 2, its stop below and its
\* target above the price
C22_Witness ==
    /\ strategy.kind = "trend_following"
    /\ st_signal # None
    /\ st_signal.action = "buy"
    /\ RLt(st_signal.stop_loss, st_signal.price)
    /\ RLt(st_signal.price, st_signal.take_profit)

\* a sell: the short MA fell below the long MA and the momentum is negative
TrendSold ==
    /\ strategy.kind = "trend_following"
    /\ st_signal # None
    /\ st_signal.action = "sell"

\* a crossing with momentum 0 is answered with hold
CrossWithoutMomentum ==
    /\ strategy.kind = "trend_following"
    /\ st_signal # None
    /\ WellFormed(candles)
    /\ TrendDefined(candles, strategy.period)
    /\ Momentum(candles, Len(candles), strategy.period) = Zero
    /\ RLt(MA(candles, Len(candles), strategy.period),
           MA(candles, Len(candles), strategy.period \div 2))
    /\ st_signal.action = "hold"

\* the rise and the fall of the close at kline i; the first kline has
\* neither
Rise(ks, i) ==
    IF i > 1 /\ RLt(Price(ks, i - 1, "close"), Price(ks, i, "close"))
    THEN RSub(Price(ks, i, "close"), Price(ks, i - 1, "close")) ELSE Zero

Fall(ks, i) ==
    IF i > 1 /\ RLt(Price(ks, i, "close"), Price(ks, i - 1, "close"))
    THEN RSub(Price(ks, i - 1, "close"), Price(ks, i, "close")) ELSE Zero

\* the sums of the rises and of the falls over klines a..b
RECURSIVE Rises(_, _, _)
Rises(ks, a, b) == IF a > b THEN Zero ELSE RAdd(Rise(ks, a), Rises(ks, a + 1, b))

RECURSIVE Falls(_, _, _)
Falls(ks, a, b) == IF a > b THEN Zero ELSE RAdd(Fall(ks, a), Falls(ks, a + 1, b))

\* RSI(period) < 30 and RSI(period) > 70 at the latest kline, for
\* RSI = 100 G / (G + L) with G and L the mean rise and fall of the last
\* period klines: 7 G < 3 L, and 3 G > 7 L
RsiBelow30(ks, period) ==
    LET n == Len(ks)
    IN  RLt(RMul(R(7), Rises(ks, n - period + 1, n)),
            RMul(R(3), Falls(ks, n - period + 1, n)))

RsiAbove70(ks, period) ==
    LET n == Len(ks)
    IN  RLt(RMul(R(7), Falls(ks, n - period + 1, n)),
            RMul(R(3), Rises(ks, n - period + 1, n)))

\* the sample variance of the last period closes
RECURSIVE SquareSum(_, _, _, _)
SquareSum(ks, a, b, m) ==
    IF a > b THEN Zero
    ELSE LET d == RSub(Price(ks, a, "close"), m)
         IN  RAdd(RMul(d, d), SquareSum(ks, a + 1, b, m))

Variance(ks, period) ==
    LET n == Len(ks)
    IN  RDiv(SquareSum(ks, n - period + 1, n, MA(ks, n, period)), R(period - 1))

\* x > k * std, for x and k not negative
BeyondBand(x, k, ks, period) ==
    RLt(Zero, x) /\ RLt(RMul(RMul(k, k), Variance(ks, period)), RMul(x, x))

\* the latest close is below the lower band MA - k std and RSI < 30
MeanBuy(st, ks) ==
    /\ Len(ks) >= st.period
    /\ BeyondBand(RSub(MA(ks, Len(ks), st.period), Price(ks, Len(ks), "close")),
                  st.std_dev_multiplier, ks, st.period)
    /\ RsiBelow30(ks, st.period)

\* the latest close is above the upper band MA + k std and RSI > 70
MeanSell(st, ks) ==
    /\ Len(ks) >= st.period
    /\ BeyondBand(RSub(Price(ks, Len(ks), "close"), MA(ks, Len(ks), st.period)),
                  st.std_dev_multiplier, ks, st.period)
    /\ RsiAbove70(ks, st.period)

\* C23: MeanReversion answers buy exactly when the latest close is below
\* the lower band and RSI < 30, sell exactly when it is above the upper band
\* and RSI > 70, and hold otherwise, with target_price the current MA; the
\* answer is a function of the latest candle's close, bands, RSI and MA
\* alone, so a threshold that is met again one candle later gives the same
\* answer again.
C23_MeanReversionRule ==
    (strategy.kind = "mean_reversion" /\ st_signal # None /\ WellFormed(candles))
        => LET n == Len(candles)
               is_buy == MeanBuy(strategy, candles)
               is_sell == MeanSell(strategy, candles)
           IN  /\ st_signal.action =
                      IF is_buy THEN "buy" ELSE IF is_sell THEN "sell" ELSE "hold"
               /\ st_signal.action # "hold"
                      => /\ st_signal.target_price = MA(candles, n, strategy.period)
                         /\ st_signal.price = Price(candles, n, "close")
               /\ (n > 1 /\ is_buy /\ MeanBuy(strategy, SubSeq(candles, 1, n - 1)))
                      => evaluate(strategy, SubSeq(candles, 1, n - 1)).action
                             = st_signal.action

\* two buys in a row: the closes 2, 2, 1 put the close below the lower band
\* of period 3 and width 1/2 std, and one more close of 1 does so again
C23_Witness ==
    /\ strategy.kind = "mean_reversion"
    /\ st_signal # None
    /\ st_signal.action = "buy"
    /\ Len(candles) > strategy.period
    /\ WellFormed(candles)
    /\ MeanBuy(strategy, SubSeq(candles, 1, Len(candles) - 1))
    /\ evaluate(strategy, SubSeq(candles, 1, Len(candles) - 1)).action = "buy"

\* a sell: the close is above the upper band and RSI above 70
MeanSold ==
    /\ strategy.kind = "mean_reversion"
    /\ st_signal # None
    /\ st_signal.action = "sell"
    /\ RLt(st_signal.target_price, st_signal.price)

\* |a - b|
Distance(a, b) == IF RLt(a, b) THEN RSub(b, a) ELSE RSub(a, b)

\* the turtle strategy answered buy or sell
TurtleTraded ==
    /\ strategy.kind = "turtle_trading"
    /\ st_signal # None
    /\ st_signal.action \in {"buy", "sell"}

\* x is y rounded to 3 decimals: a multiple of 1/1000 at most 1/2000 away
Rounded3(x, y) ==
    /\ 1000 % x[2] = 0
    /\ ~RLt(<<1, 2000>>, Distance(x, y))

\* position_size is (10000 * 0.01) / ATR rounded to 3 decimals, and 0 when
\* ATR is 0
SizedByAtr ==
    TurtleTraded =>
        LET atr == st_signal.indicators.atr
        IN  IF RLt(Zero, atr)
            THEN Rounded3(st_signal.position_size, RDiv(R(100), atr))
            ELSE st_signal.position_size = Zero

\* stop_loss and take_profit lie 2 ATR from the price, on opposite sides
LevelsTwoAtrAway ==
    TurtleTraded =>
        LET two_atr == RMul(R(2), st_signal.indicators.atr)
            up == RAdd(st_signal.price, two_atr)
            down == RSub(st_signal.price, two_atr)
        IN  IF st_signal.action = "buy"
            THEN st_signal.stop_loss = down /\ st_signal.take_profit = up
            ELSE st_signal.stop_loss = up /\ st_signal.take_profit = down

\* C24: for every buy or sell of TurtleTrading with ATR > 0 the distance
\* from the price to take_profit is twice the distance from the price to
\* stop_loss (2:1 reward:risk), and position_size is (10000 * 0.01) / ATR
\* rounded to 3 decimals (0 when ATR is 0).
C24_TwoToOneRewardRisk ==
    /\ SizedByAtr
    /\ (TurtleTraded /\ RLt(Zero, st_signal.indicators.atr))
           => Distance(st_signal.price, st_signal.take_profit) =
                  RMul(R(2), Distance(st_signal.price, st_signal.stop_loss))

\* a buy with ATR 1 at price 2: stop_loss 0 and take_profit 4, both 2 away
EqualRewardRisk ==
    /\ TurtleTraded
    /\ st_signal.action = "buy"
    /\ st_signal.indicators.atr = R(1)
    /\ st_signal.position_size = R(100)
    /\ Distance(st_signal.price, st_signal.take_profit) =
           Distance(st_signal.price, st_signal.stop_loss)

\* the last period klines of ks
Latest(ks, period) == (Len(ks) - period + 1)..Len(ks)

\* the latest close is above every high / below every low of the last
\* period klines, the latest one included
AboveChannel(ks, period) ==
    /\ Len(ks) >= period
    /\ \A j \in Latest(ks, period) :
           RLt(Price(ks, j, "high"), Price(ks, Len(ks), "close"))

BelowChannel(ks, period) ==
    /\ Len(ks) >= period
    /\ \A j \in Latest(ks, period) :
           RLt(Price(ks, Len(ks), "close"), Price(ks, j, "low"))

\* the latest kline has low <= close <= high
CloseWithinRange(ks) ==
    /\ Len(ks) >= 1
    /\ ~RLt(Price(ks, Len(ks), "close"), Price(ks, Len(ks), "low"))
    /\ ~RLt(Price(ks, Len(ks), "high"), Price(ks, Len(ks), "close"))

\* C25: TurtleTrading answers buy only if the latest close is strictly
\* above the highest high of the last entry_period candles, the latest one
\* included, and sell only if it is strictly below their lowest low; so for
\* a series whose latest candle has low <= close <= high the answer is
\* never buy or sell.
C25_TurtleNeverBreaksOut ==
    (strategy.kind = "turtle_trading" /\ st_signal # None /\ WellFormed(candles))
        => /\ st_signal.action = "buy"
               => AboveChannel(candles, strategy.entry_period)
           /\ st_signal.action = "sell"
               => BelowChannel(candles, strategy.entry_period)
           /\ CloseWithinRange(candles) => st_signal.action = "hold"

\* the latest close (2, equal to its high) is above every high of the
\* entry_period candles before it, and the answer is hold
C25_Witness ==
    /\ strategy.kind = "turtle_trading"
    /\ st_signal # None
    /\ WellFormed(candles)
    /\ Len(candles) >= turtle_required_length(strategy)
    /\ CloseWithinRange(candles)
    /\ AboveChannel(SubSeq(candles, 1, Len(candles) - 1) \o
                        <<[candles[Len(candles)] EXCEPT !.high = "1"]>>,
                    strategy.entry_period + 1)
    /\ st_signal = Hold("no clear breakout")

\* a buy: the latest kline's close lies above its own high
BoughtAboveOwnHigh ==
    /\ TurtleTraded
    /\ st_signal.action = "buy"
    /\ ~CloseWithinRange(candles)

----------------------------------------------------------------------------
(* Live engine: isolation and ordering of the symbols                      *)

\* the symbols the cycle worked on: those it made a call or a log entry for
Processed(evs) == {evs[i].symbol : i \in 1..Len(evs)}

\* the orders of the cycle that were placed for symbol s
PlacedOrders(evs, s) == {i \in Calls(evs, s, {"place_order"}) : evs[i].ok}

\* C26: a cycle changes last_signals[B] and positions[B] only through B's
\* own evaluation and dispatch: a symbol the cycle does not work on keeps
\* both; last_signals[B] changes only to B's own signal of the cycle, and
\* positions[B] only to the position of B's own placed order, whatever
\* happened to the other symbols, in run_once_for_symbol and in
\* run_once_for_all_symbols.
C26_PerSymbolIsolation ==
    [][\A b \in AllSymbols :
          /\ b \notin Processed(events')
                => /\ last_signals'[b] = last_signals[b]
                   /\ positions'[b] = positions[b]
          /\ result'.call = "run_once_for_symbol"
                => Cardinality(Processed(events') \ {""}) = 1
          /\ last_signals'[b] # last_signals[b]
                => last_signals'[b] = signals'[b]
          /\ IF PlacedOrders(events', b) = {}
             THEN positions'[b] = positions[b]
             ELSE \A i \in PlacedOrders(events', b) :
                      positions'[b] =
                          [side |-> events'[i].side,
                           size |-> events'[i].quantity,
                           entry_price |-> SignalGet(signals'[b], "price", 0)]]_vars

\* in one pass the first symbol's order was placed and the second symbol,
\* whose signal was not new, kept its different, earlier position
C26_Witness ==
    /\ MultiSymbolPass
    /\ PlacedOrders(events, strategies[1]) # {}
    /\ \E i \in 1..Len(events) :
           events[i] = [kind |-> "no_new_signal", symbol |-> strategies[2]]
    /\ positions[strategies[2]] # NoPosition
    /\ positions[strategies[2]].side # positions[strategies[1]].side
    /\ last_signals[strategies[2]] # last_signals[strategies[1]]

\* a single-symbol cycle whose order failed, the other symbol holding a
\* position
OtherSymbolKept ==
    \E a, b \in AllSymbols :
        /\ a # b
        /\ result.call = "run_once_for_symbol"
        /\ result.ret = "False"
        /\ Processed(events) \ {""} = {a}
        /\ positions[b] # NoPosition

EvaluationCalls == {"get_klines", "evaluate"}

DispatchCalls ==
    {"new_signal", "no_new_signal", "trade_notification", "place_order",
     "system_alert"}

\* the position of strategies at which symbol s stands
OrderOf(s) == CHOOSE i \in 1..Len(strategies) : strategies[i] = s

\* C27: in one run_once_for_all_symbols pass every configured symbol's
\* market data is fetched exactly once and its strategy evaluated once (not
\* at all when the fetch failed), every fetch and evaluation comes before
\* the first notification or order of any symbol, and both the evaluations
\* and the dispatches go over the symbols in the order of self.strategies.
C27_EvaluateAllThenDispatch ==
    MultiSymbolPass =>
        /\ \A s \in StrategyKeys :
              /\ Cardinality(Calls(events, s, {"get_klines"})) = 1
              /\ \A i \in Calls(events, s, {"get_klines"}) :
                     Cardinality(Calls(events, s, {"evaluate"})) =
                         IF events[i].ok THEN 1 ELSE 0
              /\ Cardinality(Calls(events, s, {"new_signal", "no_new_signal"})) = 1
        /\ \A i, j \in 1..Len(events) :
              /\ (events[i].kind \in EvaluationCalls
                  /\ events[j].kind \in DispatchCalls) => i < j
              /\ (/\ events[i].kind \in EvaluationCalls
                  /\ events[j].kind \in EvaluationCalls
                  /\ OrderOf(events[i].symbol) < OrderOf(events[j].symbol)) => i < j
              /\ (/\ events[i].kind \in DispatchCalls
                  /\ events[j].kind \in DispatchCalls
                  /\ OrderOf(events[i].symbol) < OrderOf(events[j].symbol)) => i < j

\* a pass in which both symbols were notified and had an order placed: the
\* second symbol's fetch precedes the first symbol's notification
C27_Witness ==
    /\ MultiSymbolPass
    /\ \A s \in StrategyKeys :
           /\ Calls(events, s, {"trade_notification"}) # {}
           /\ Calls(events, s, {"place_order"}) # {}
    /\ \E i \in Calls(events, strategies[2], {"get_klines"}) :
       \E j \in Calls(events, strategies[1], {"trade_notification"}) : i < j

----------------------------------------------------------------------------
(* MemoryEventBus: properties                                              *)

\* the handlers called by the last publish, in the order of the calls
Called == [i \in 1..Len(deliveries) |-> deliveries[i].handler]

\* the handlers subscribed to a type, in the order of their subscription
Subscribed(event_type) ==
    IF handlers[event_type].present THEN handlers[event_type].list ELSE << >>

\* C29: publish calls handle once on every handler subscribed to the exact
\* type of the event, in subscription order, also after a handler raised,
\* and publish does not raise; no handler is ever twice in a type's list, no
\* type is mapped to an empty list, and subscribing a handler that is
\* already subscribed changes nothing.
C29_EventBusDelivery ==
    /\ [](bus_result.op = "publish"
            => /\ ~bus_result.exc
               /\ Called = Subscribed(bus_result.event_type)
               /\ \A h \in Handlers :
                      Cardinality({i \in 1..Len(deliveries) :
                                      deliveries[i].handler = h}) =
                          IF h \in Elements(Subscribed(bus_result.event_type))
                          THEN 1 ELSE 0)
    /\ [](\A t \in EventTypes :
            /\ handlers[t].present => handlers[t].list # << >>
            /\ \A i, j \in 1..Len(handlers[t].list) :
                   handlers[t].list[i] = handlers[t].list[j] => i = j)
    /\ [][(/\ bus_result'.op = "subscribe"
           /\ bus_result'.handler
                  \in Elements(Subscribed(bus_result'.event_type)))
              => handlers' = handlers]_vars

\* handler 2 was subscribed before handler 1 and raised; handler 1 was
\* called after it; the same two handlers are subscribed to the other type
\* in the other order
C29_Witness ==
    /\ bus_result.op = "publish"
    /\ deliveries = <<[handler |-> 2, raised |-> TRUE],
                      [handler |-> 1, raised |-> FALSE]>>
    /\ \E t \in EventTypes \ {bus_result.event_type} :
           handlers[t].list = <<1, 2>>

\* the last handler of a type was unsubscribed and the type's key is gone
KeyRemoved ==
    /\ bus_result.op = "unsubscribe"
    /\ ~handlers[bus_result.event_type].present
    /\ \E t \in EventTypes : handlers[t].present

----------------------------------------------------------------------------
(* Strategy service: the activation lifecycle                               *)

\* the last call was activate_strategy or deactivate_strategy
ActivationCall == cs_result.op \in {"activate_strategy", "deactivate_strategy"}

\* the activation and deactivation events published for strategy id, in
\* the order of their publication
RECURSIVE TogglesOf(_, _, _)
TogglesOf(bus, id, i) ==
    IF i > Len(bus) THEN << >>
    ELSE IF bus[i].event \in ToggleEvents /\ bus[i].strategy_id = id
    THEN <<bus[i].event>> \o TogglesOf(bus, id, i + 1)
    ELSE TogglesOf(bus, id, i + 1)

\* the events alternate, the first one an activation
Alternating(evs) ==
    \A k \in 1..Len(evs) :
        evs[k] = IF k % 2 = 1 THEN "StrategyActivatedEvent"
                 ELSE "StrategyDeactivatedEvent"

UnknownStrategy ==
    /\ ActivationCall
    /\ cs_result.exc = "StrategyNotFoundError"
    /\ cs_result.strategy_id \notin 1..Len(repository)
    /\ Len(repository) = 1

====
